---- MODULE Spec2Model ----
(***************************************************************************)
(* Key management and device trust of the pswd password vault.             *)
(*                                                                         *)
(* The browser side (SecureStorage and CryptoManager of the SecureCrypto   *)
(* helper, the older helpers/crypto.ts and helpers/register.ts, the        *)
(* registration and login components, AuthContext.logout) and the Go       *)
(* server's register / login / logout / reset handlers.                    *)
(*                                                                         *)
(* Cryptography is symbolic: a secretbox is a record of the nonce, the key *)
(* and the plaintext it was made from and opens only under that nonce and  *)
(* key; a hash is a record of its input; a random draw is a fresh value,   *)
(* named by what it is drawn for and how many were drawn for that before.  *)
(***************************************************************************)
EXTENDS Integers, Sequences, FiniteSets, TLC

VARIABLES
    \* ---- server (PostgreSQL tables) ----
    users,          \* rows of table users
    devices,        \* rows of table devices
    nextId,         \* next gen_random_uuid() value
    vaultEntries,   \* rows of table vault_entries, in order of created_at
    \* ---- server (memory of the process) ----
    ipLimiter,      \* the IPRateLimiter: its map ips, the limiters made, cleanups run
    requests,       \* requests inside RateLimitMiddleware: goroutine -> position
    \* ---- browser, durable ----
    idb,            \* IndexedDB object store "keys": name -> stored string
    localStore,     \* window.localStorage: name -> stored string
    secureDb,       \* the store behind helpers/secureStorage secureSet: name -> sealed string
    vault,          \* encrypted vault entries produced by encryptVaultEntry
    \* ---- browser, memory of the current page ----
    sessionKey,     \* SecureStorage.sessionKey: 0 (null) or a buffer address
    heap,           \* key buffers of the page: address -> bytes
    ssInitialized,  \* SecureStorage.initialized
    cmInitialized,  \* CryptoManager.initialized
    unloadHandler,  \* a beforeunload listener is registered
    inits,          \* SecureStorage init, set and get calls in flight: caller -> position
    reg,            \* locals of RegisterWithSteps.handleRegister in flight
    store,          \* the storeMasterKeys call in flight
    user,           \* AuthContext user state
    cookie,         \* the browser's auth_token cookie (durable)
    \* ---- bookkeeping ----
    rng,            \* random values drawn so far, per use of the random source
    epoch,          \* number of page loads so far
    fpReturned,     \* every value generateDeviceFingerprint has returned on this device
    lastOp          \* the operation that produced this state, with what it answered:
                    \* the HTTP response, the error shown, the route navigated to

tables == <<users, devices, nextId, vaultEntries>>
serverVars == <<users, devices, nextId, vaultEntries, ipLimiter, requests>>
vars == <<users, devices, nextId, vaultEntries, ipLimiter, requests, idb, localStore, secureDb, inits, vault, sessionKey, heap,
          ssInitialized, cmInitialized, unloadHandler, reg, store, user, cookie,
          rng, epoch, fpReturned, lastOp>>

(***************************************************************************)
(* Bounds                                                                  *)
(***************************************************************************)
MaxRegs == 1        \* registrations started in the browser
MaxFps == 2         \* fingerprints generated in the browser
MaxSets == 6        \* SecureStorage.set calls
MaxIds == 3         \* rows the server creates
MaxEpoch == 2       \* page loads
MaxVault == 1       \* vault entries

Usernames == {"alice", "bob"}
Passwords == {"pw1", "pw2"}
Emails == {"a@x", "b@x"}
Payloads == {"bank", "mail"}

(***************************************************************************)
(* Symbolic values                                                         *)
(***************************************************************************)
Null == [type |-> "null"]
Str(s) == [type |-> "str", s |-> s]

\* sodium.to_base64 / sodium.from_base64
to_base64(bytes) == [type |-> "b64", bytes |-> bytes]
from_base64(s) == IF s.type = "b64" THEN s.bytes ELSE [type |-> "garbage", of |-> s]

\* sodium.from_string / sodium.to_string
from_string(s) == [type |-> "utf8", of |-> s]
to_string(bytes) == IF bytes.type = "utf8" THEN bytes.of ELSE [type |-> "garbage", of |-> bytes]

\* JSON.stringify / JSON.parse
JSONstringify(d) == [type |-> "json", of |-> d]
JSONparse(s) == IF s.type = "json" THEN s.of ELSE [type |-> "garbage", of |-> s]

\* sodium.crypto_secretbox_easy / crypto_secretbox_open_easy
Failure == [type |-> "failure"]
crypto_secretbox_easy(message, nonce, key) ==
    [type |-> "box", nonce |-> nonce, key |-> key, pt |-> message]
crypto_secretbox_open_easy(ciphertext, nonce, key) ==
    IF ciphertext.type = "box" /\ ciphertext.nonce = nonce /\ ciphertext.key = key
    THEN ciphertext.pt ELSE Failure

\* nonce || ciphertext, and its split at crypto_secretbox_NONCEBYTES
Combine(nonce, ciphertext) == [type |-> "combined", nonce |-> nonce, ct |-> ciphertext]
SliceNonce(combined) == IF combined.type = "combined" THEN combined.nonce ELSE Null
SliceCiphertext(combined) == IF combined.type = "combined" THEN combined.ct ELSE Null

\* sodium.crypto_generichash(32, x)
crypto_generichash(x) == [type |-> "hash", of |-> x]

\* key pairs: the n-th random draw names the pair
PrivateKey(kind, n) == [type |-> "sk", kind |-> kind, id |-> n]
PublicKey(kind, n) == [type |-> "pk", kind |-> kind, id |-> n]

\* the n-th random nonce drawn for a use
Nonce(s, n) == [type |-> "nonce", use |-> s, n |-> n]

\* CryptoManager.deriveKeyFromPassword (crypto_pwhash)
deriveKeyFromPassword(password, salt) == [type |-> "pwkey", pw |-> password, salt |-> salt]

(***************************************************************************)
(* Server: password hashing, tokens                                        *)
(***************************************************************************)
HashPassword(password) == [type |-> "pwhash", pw |-> password]
VerifyPassword(password, hash) ==
    password # "" /\ hash.type = "pwhash" /\ hash.pw = password

NoToken == [type |-> "none"]
GenerateToken(userID, username, deviceID) ==
    [type |-> "jwt", user_id |-> userID, username |-> username, device_id |-> deviceID]

\* http.Error / json response: status, message body, auth cookie set by the handler
Reply(status, body, token, isMaster) ==
    [status |-> status, body |-> body, cookie |-> token, is_master |-> isMaster]

NoFp == [type |-> "fp", rnd |-> 0]
Fingerprint(r) == [type |-> "fp", rnd |-> r]

RandomUses == {"sessionKey", "masterKeys", "deviceKeys", "fingerprint", "set", "entry"}

\* auth.GenerateToken returns a nil error on every path, so the handlers'
\* "failed to generate token" branches are never taken; the error of the
\* last_seen update ("seen") is ignored by LoginHandler
RegisterFaults == {"none", "hash", "begin", "user", "device", "commit"}
LoginFaults == {"none", "seen"}

(***************************************************************************)
(* Server handlers.  Each returns the tables after the request and the     *)
(* response; `fault` is the step of the handler at which the database or   *)
(* the token signer fails ("none": no failure).                            *)
(***************************************************************************)
Outcome(us, ds, id, r) == [users |-> us, devices |-> ds, nextId |-> id, resp |-> r]

\* RegisterHandler with the two inserts outside a transaction: a failed device
\* insert leaves the users row behind
RegisterHandler_NoTransaction(req, fault) ==
    LET userRow == [user_id |-> nextId, username |-> req.username, email |-> req.email,
                    pk_encrypt |-> req.pk_encrypt, pk_sign |-> req.pk_sign,
                    password_hash |-> HashPassword(req.password),
                    is_master_device_registered |-> TRUE]
        deviceRow == [device_id |-> nextId, user_id |-> nextId,
                      device_fingerprint |-> req.device_fingerprint,
                      pk_device |-> req.pk_device, is_master |-> TRUE,
                      last_seen |-> "created"]
        fail(us, id, status, body) == Outcome(us, devices, id,
                                              Reply(status, body, NoToken, FALSE))
    IN  IF req.username = "" \/ req.password = "" \/ req.device_fingerprint = NoFp
        THEN fail(users, nextId, 400, "username, password, and device_fingerprint are required")
        ELSE IF fault = "hash"
        THEN fail(users, nextId, 500, "failed to process password")
        ELSE IF fault = "begin"
        THEN fail(users, nextId, 500, "database error")
        ELSE IF fault = "user"
                \/ \E u \in users : u.username = req.username \/ u.email = req.email
        THEN fail(users, nextId, 409, "username or email already exists")
        ELSE IF fault = "device"
                \/ \E d \in devices : d.device_fingerprint = req.device_fingerprint
        THEN fail(users \cup {userRow}, nextId + 1, 500, "failed to register device")
        ELSE IF fault = "commit"
        THEN fail(users, nextId, 500, "failed to complete registration")
        ELSE IF fault = "token"
        THEN Outcome(users \cup {userRow}, devices \cup {deviceRow}, nextId + 1,
                     Reply(500, "failed to generate token", NoToken, FALSE))
        ELSE Outcome(users \cup {userRow}, devices \cup {deviceRow}, nextId + 1,
                     Reply(201, "registered",
                           GenerateToken(nextId, req.username, nextId), TRUE))

\* RegisterHandler whose failed commit leaves the two inserts in the tables
RegisterHandler_NoRollback(req, fault) ==
    LET userID == nextId
        deviceID == nextId
        userRow == [user_id |-> userID, username |-> req.username, email |-> req.email,
                    pk_encrypt |-> req.pk_encrypt, pk_sign |-> req.pk_sign,
                    password_hash |-> HashPassword(req.password),
                    is_master_device_registered |-> TRUE]
        deviceRow == [device_id |-> deviceID, user_id |-> userID,
                      device_fingerprint |-> req.device_fingerprint,
                      pk_device |-> req.pk_device, is_master |-> TRUE,
                      last_seen |-> "created"]
        rollback(status, body) == Outcome(users, devices, nextId,
                                          Reply(status, body, NoToken, FALSE))
    IN  IF req.username = "" \/ req.password = "" \/ req.device_fingerprint = NoFp
        THEN rollback(400, "username, password, and device_fingerprint are required")
        ELSE IF fault = "hash"
        THEN rollback(500, "failed to process password")
        ELSE IF fault = "begin"
        THEN rollback(500, "database error")
        ELSE IF fault = "user"
                \/ \E u \in users : u.username = req.username \/ u.email = req.email
        THEN rollback(409, "username or email already exists")
        ELSE IF fault = "device"
                \/ \E d \in devices : d.device_fingerprint = req.device_fingerprint
        THEN rollback(500, "failed to register device")
        ELSE IF fault = "commit"
        THEN Outcome(users \cup {userRow}, devices \cup {deviceRow}, nextId + 1,
                     Reply(500, "failed to complete registration", NoToken, FALSE))
        ELSE IF fault = "token"
        THEN Outcome(users \cup {userRow}, devices \cup {deviceRow}, nextId + 1,
                     Reply(500, "failed to generate token", NoToken, FALSE))
        ELSE Outcome(users \cup {userRow}, devices \cup {deviceRow}, nextId + 1,
                     Reply(201, "registered",
                           GenerateToken(userID, req.username, deviceID), TRUE))

\* POST /api/auth/register
RegisterHandler(req, fault) ==
    LET userID == nextId
        deviceID == nextId
        userRow == [user_id |-> userID, username |-> req.username, email |-> req.email,
                    pk_encrypt |-> req.pk_encrypt, pk_sign |-> req.pk_sign,
                    password_hash |-> HashPassword(req.password),
                    is_master_device_registered |-> TRUE]
        deviceRow == [device_id |-> deviceID, user_id |-> userID,
                      device_fingerprint |-> req.device_fingerprint,
                      pk_device |-> req.pk_device, is_master |-> TRUE,
                      last_seen |-> "created"]
        rollback(status, body) == Outcome(users, devices, nextId,
                                          Reply(status, body, NoToken, FALSE))
    IN  IF req.username = "" \/ req.password = "" \/ req.device_fingerprint = NoFp
        THEN rollback(400, "username, password, and device_fingerprint are required")
        ELSE IF fault = "hash"
        THEN rollback(500, "failed to process password")
        ELSE IF fault = "begin"
        THEN rollback(500, "database error")
        ELSE IF fault = "user"
                \/ \E u \in users : u.username = req.username \/ u.email = req.email
        THEN rollback(409, "username or email already exists")
        ELSE IF fault = "device"
                \/ \E d \in devices : d.device_fingerprint = req.device_fingerprint
        THEN rollback(500, "failed to register device")
        ELSE IF fault = "commit"
        THEN rollback(500, "failed to complete registration")
        ELSE IF fault = "token"
        THEN Outcome(users \cup {userRow}, devices \cup {deviceRow}, nextId + 1,
                     Reply(500, "failed to generate token", NoToken, FALSE))
        ELSE Outcome(users \cup {userRow}, devices \cup {deviceRow}, nextId + 1,
                     Reply(201, "registered",
                           GenerateToken(userID, req.username, deviceID), TRUE))

\* LoginHandler without the device lookup: any device of a user who knows the
\* password gets a token
LoginHandler_NoDeviceCheck(req, fault) ==
    LET found == {u \in users : u.username = req.username}
        deny(status, body) == Outcome(users, devices, nextId,
                                      Reply(status, body, NoToken, FALSE))
    IN  IF found = {}
        THEN deny(401, "invalid credentials")
        ELSE LET u == CHOOSE x \in found : TRUE
             IN  IF ~VerifyPassword(req.password, u.password_hash)
                 THEN deny(401, "invalid password")
                 ELSE IF fault = "token"
                 THEN deny(500, "failed to generate token")
                 ELSE Outcome(users, devices, nextId,
                              Reply(200, "logged in",
                                    GenerateToken(u.user_id, u.username, 0), FALSE))

\* LoginHandler looking the fingerprint up among the devices of all users
LoginHandler_AnyUsersDevice(req, fault) ==
    LET found == {u \in users : u.username = req.username}
        deny(status, body) == Outcome(users, devices, nextId,
                                      Reply(status, body, NoToken, FALSE))
    IN  IF found = {}
        THEN deny(401, "invalid credentials")
        ELSE LET u == CHOOSE x \in found : TRUE
                 dev == {d \in devices : d.device_fingerprint = req.device_fingerprint}
             IN  IF ~VerifyPassword(req.password, u.password_hash)
                 THEN deny(401, "invalid password")
                 ELSE IF dev = {}
                 THEN deny(403, "device not registered")
                 ELSE LET d == CHOOSE x \in dev : TRUE
                          seen == IF fault = "seen" THEN devices
                                  ELSE (devices \ {d}) \cup {[d EXCEPT !.last_seen = "login"]}
                      IN  IF fault = "token"
                          THEN Outcome(users, seen, nextId,
                                       Reply(500, "failed to generate token", NoToken, FALSE))
                          ELSE Outcome(users, seen, nextId,
                                       Reply(200, "logged in",
                                             GenerateToken(u.user_id, u.username, d.device_id),
                                             d.is_master))

\* POST /api/auth/login
LoginHandler(req, fault) ==
    LET found == {u \in users : u.username = req.username}
        deny(status, body) == Outcome(users, devices, nextId,
                                      Reply(status, body, NoToken, FALSE))
    IN  IF found = {}
        THEN deny(401, "invalid credentials")
        ELSE LET u == CHOOSE x \in found : TRUE
                 dev == {d \in devices : d.user_id = u.user_id
                                         /\ d.device_fingerprint = req.device_fingerprint}
             IN  IF ~VerifyPassword(req.password, u.password_hash)
                 THEN deny(401, "invalid password")
                 ELSE IF dev = {}
                 THEN deny(403, "device not registered")
                 ELSE LET d == CHOOSE x \in dev : TRUE
                          seen == IF fault = "seen" THEN devices
                                  ELSE (devices \ {d}) \cup {[d EXCEPT !.last_seen = "login"]}
                      IN  IF fault = "token"
                          THEN Outcome(users, seen, nextId,
                                       Reply(500, "failed to generate token", NoToken, FALSE))
                          ELSE Outcome(users, seen, nextId,
                                       Reply(200, "logged in",
                                             GenerateToken(u.user_id, u.username, d.device_id),
                                             d.is_master))

\* POST /api/auth/logout
LogoutHandler ==
    Outcome(users, devices, nextId, Reply(200, "logged out successfully", NoToken, FALSE))

\* POST /api/__$RESET$
EraseDBDataHandler(fail) ==
    IF fail
    THEN Outcome(users, devices, nextId,
                 Reply(500, "failed to erase database data", NoToken, FALSE))
    ELSE [vault_entries |-> <<>>] @@ Outcome({}, {}, nextId, Reply(200, "", NoToken, FALSE))

\* sizes sodium's constants give nonce || ciphertext
crypto_secretbox_NONCEBYTES == 24
crypto_secretbox_MACBYTES == 16

\* number of bytes of nonce || ciphertext for a payload that is a JSON string
\* (JSON.stringify adds the two quotes)
ByteLength(bytes) ==
    crypto_secretbox_NONCEBYTES + crypto_secretbox_MACBYTES
        + Len(JSONparse(to_string(bytes.ct.pt))) + 2

\* what the random bytes of the n-th nonce and its ciphertext happen to be:
\* odd draws have a 6-bit group of value 62 or 63 (written - or _ by sodium,
\* + or / by Go); only draws above 2 are valid UTF-8 without a NUL byte
HasSextet62or63(bytes) == bytes.nonce.n % 2 = 1
ValidText(bytes) == bytes.nonce.n > 2

\* the text sodium.to_base64 gives (URLSAFE_NO_PADDING) is also what Go's
\* StdEncoding gives (alphabet with + and /, padded with =) when the length is
\* a multiple of 3 and no 6-bit group is 62 or 63
SameInBothAlphabets(bytes) ==
    ByteLength(bytes) % 3 = 0 /\ ~HasSextet62or63(bytes)

\* base64.StdEncoding.DecodeString on a text made by sodium.to_base64
StdDecodeString(s) ==
    IF s.type = "b64" /\ SameInBothAlphabets(s.bytes)
    THEN [bytes |-> s.bytes, err |-> FALSE]
    ELSE [bytes |-> Null, err |-> TRUE]

\* base64.StdEncoding.EncodeToString
StdEncodeToString(bytes) ==
    IF SameInBothAlphabets(bytes) THEN to_base64(bytes)
    ELSE [type |-> "b64std", bytes |-> bytes]

\* AuthMiddleware: the user id of the token, or the 401 it answers
AuthMiddleware(token) ==
    IF token.type # "jwt" THEN [ok |-> FALSE, resp |-> Reply(401, "unauthorized", NoToken, FALSE)]
    ELSE [ok |-> TRUE, user_id |-> token.user_id]

\* POST /api/vault/entries
CreateVaultEntryHandler(token, req) ==
    LET a == AuthMiddleware(token)
        encryptedData == StdDecodeString(req.encrypted_data)
        entryID == nextId
        row == [entry_id |-> entryID, user_id |-> a.user_id, title |-> req.title,
                encrypted_data |-> encryptedData.bytes, entry_type |-> req.entry_type]
        \* user_id REFERENCES users; encrypted_data is a TEXT column, to which
        \* lib/pq sends the []byte as it is
        inserted == /\ \E x \in users : x.user_id = a.user_id
                    /\ ValidText(encryptedData.bytes)
    IN  IF ~a.ok THEN Outcome(users, devices, nextId, a.resp)
        ELSE IF encryptedData.err
        THEN Outcome(users, devices, nextId,
                     Reply(400, "invalid encrypted data", NoToken, FALSE))
        ELSE IF ~inserted
        THEN Outcome(users, devices, nextId,
                     Reply(500, "failed to create entry", NoToken, FALSE))
        ELSE [vault_entries |-> Append(vaultEntries, row)]
                @@ Outcome(users, devices, nextId + 1,
                           Reply(201, [entry_id |-> entryID], NoToken, FALSE))

\* the rows of a user, newest first (ORDER BY created_at DESC)
RECURSIVE RowsOf(_, _)
RowsOf(rows, userID) ==
    IF rows = <<>> THEN <<>>
    ELSE LET rest == RowsOf(SubSeq(rows, 1, Len(rows) - 1), userID)
             last == rows[Len(rows)]
         IN  IF last.user_id = userID THEN <<last>> \o rest ELSE rest

\* GET /api/vault/entries
GetVaultEntriesHandler(rows, token) ==
    LET a == AuthMiddleware(token)
        mine == RowsOf(rows, a.user_id)
        entries == [i \in DOMAIN mine |->
                      [entry_id |-> mine[i].entry_id, title |-> mine[i].title,
                       encrypted_data |-> StdEncodeToString(mine[i].encrypted_data),
                       entry_type |-> mine[i].entry_type]]
    IN  IF ~a.ok THEN a.resp ELSE Reply(200, entries, NoToken, FALSE)

\* the indices of the rows WHERE entry_id = entryID AND user_id = userID
Matching(entryID, userID) ==
    {i \in DOMAIN vaultEntries : /\ vaultEntries[i].entry_id = entryID
                                 /\ vaultEntries[i].user_id = userID}

\* UpdateVaultEntryHandler without user_id in the WHERE clause
UpdateVaultEntryHandler_AnyOwner(token, entryID, req) ==
    LET a == AuthMiddleware(token)
        encryptedData == StdDecodeString(req.encrypted_data)
        hit == {i \in DOMAIN vaultEntries : vaultEntries[i].entry_id = entryID}
        updated == [i \in DOMAIN vaultEntries |->
                      IF i \in hit
                      THEN [vaultEntries[i] EXCEPT !.title = req.title,
                                                   !.encrypted_data = encryptedData.bytes,
                                                   !.entry_type = req.entry_type]
                      ELSE vaultEntries[i]]
    IN  IF ~a.ok THEN Outcome(users, devices, nextId, a.resp)
        ELSE IF encryptedData.err
        THEN Outcome(users, devices, nextId,
                     Reply(400, "invalid encrypted data", NoToken, FALSE))
        ELSE IF ~ValidText(encryptedData.bytes)
        THEN Outcome(users, devices, nextId,
                     Reply(500, "failed to update entry", NoToken, FALSE))
        ELSE IF hit = {}
        THEN Outcome(users, devices, nextId,
                     Reply(404, "entry not found", NoToken, FALSE))
        ELSE [vault_entries |-> updated]
                @@ Outcome(users, devices, nextId, Reply(200, "", NoToken, FALSE))

\* PUT /api/vault/entries/{entryID}
UpdateVaultEntryHandler(token, entryID, req) ==
    LET a == AuthMiddleware(token)
        encryptedData == StdDecodeString(req.encrypted_data)
        hit == Matching(entryID, a.user_id)
        updated == [i \in DOMAIN vaultEntries |->
                      IF i \in hit
                      THEN [vaultEntries[i] EXCEPT !.title = req.title,
                                                   !.encrypted_data = encryptedData.bytes,
                                                   !.entry_type = req.entry_type]
                      ELSE vaultEntries[i]]
    IN  IF ~a.ok THEN Outcome(users, devices, nextId, a.resp)
        ELSE IF encryptedData.err
        THEN Outcome(users, devices, nextId,
                     Reply(400, "invalid encrypted data", NoToken, FALSE))
        ELSE IF ~ValidText(encryptedData.bytes)
        THEN Outcome(users, devices, nextId,
                     Reply(500, "failed to update entry", NoToken, FALSE))
        ELSE IF hit = {}
        THEN Outcome(users, devices, nextId,
                     Reply(404, "entry not found", NoToken, FALSE))
        ELSE [vault_entries |-> updated]
                @@ Outcome(users, devices, nextId, Reply(200, "", NoToken, FALSE))

\* the rows without those at the indices in hit
RECURSIVE Without(_, _)
Without(rows, hit) ==
    IF rows = <<>> THEN <<>>
    ELSE LET front == Without(SubSeq(rows, 1, Len(rows) - 1), hit)
         IN  IF Len(rows) \in hit THEN front ELSE Append(front, rows[Len(rows)])

\* DELETE /api/vault/entries/{entryID}
DeleteVaultEntryHandler(token, entryID) ==
    LET a == AuthMiddleware(token)
        hit == Matching(entryID, a.user_id)
    IN  IF ~a.ok THEN Outcome(users, devices, nextId, a.resp)
        ELSE IF hit = {}
        THEN Outcome(users, devices, nextId,
                     Reply(404, "entry not found", NoToken, FALSE))
        ELSE [vault_entries |-> Without(vaultEntries, hit)]
                @@ Outcome(users, devices, nextId, Reply(204, "", NoToken, FALSE))

\* the tables after a handler; vault_entries is written by the vault handlers
\* and by the reset only
Serve(out) ==
    /\ users' = out.users
    /\ devices' = out.devices
    /\ nextId' = out.nextId
    /\ vaultEntries' = IF "vault_entries" \in DOMAIN out THEN out.vault_entries
                       ELSE vaultEntries
    /\ UNCHANGED <<ipLimiter, requests>>

(***************************************************************************)
(* The server on its own: requests of any client.                          *)
(***************************************************************************)
MaxServerFps == 2

ServerFingerprints == {Fingerprint(n) : n \in 0..MaxServerFps}

RegisterRequests ==
    [username : Usernames \cup {""}, email : Emails, password : Passwords \cup {""},
     pk_encrypt : {PublicKey("enc", 0)}, pk_sign : {PublicKey("sign", 0)},
     device_fingerprint : ServerFingerprints, pk_device : {PublicKey("dev", 0)}]

LoginRequests ==
    [username : Usernames, password : Passwords \cup {""},
     device_fingerprint : ServerFingerprints]

MaxRequests == 3    \* requests inside RateLimitMiddleware at one time
MaxLimiters == 3    \* rate.NewLimiter calls
MaxCleanups == 1    \* ticks of the cleanup ticker
MaxBurst == 1       \* burst b of a limiter; no token is refilled within the run
CleanupAbove == 1   \* map size above which the cleanup empties the map
                    \* (10000 in the source, scaled to the addresses modelled)
Goroutines == 1..MaxRequests
NotServing == [pc |-> "idle"]

MaxCallers == 2     \* concurrent callers of SecureStorage.init
Callers == 1..MaxCallers

\* an init call: pc "idle" (not running), "ready" (at await sodium.ready),
\* "opening" (at await this.openDB()); teardown: a beforeunload event came
\* while the call was running
NotCalled == [pc |-> "idle", teardown |-> FALSE]

InitServer ==
    /\ users = {}
    /\ devices = {}
    /\ nextId = 1
    /\ vaultEntries = <<>>
    /\ ipLimiter = [ips |-> [a \in {} |-> 0], tokens |-> <<>>, cleanups |-> 0]
    /\ requests = [g \in Goroutines |-> NotServing]

InitBrowser ==
    /\ idb = [k \in {} |-> Null]
    /\ localStore = [k \in {} |-> Null]
    /\ secureDb = [k \in {} |-> Null]
    /\ vault = {}
    /\ sessionKey = 0
    /\ heap = [a \in {} |-> Null]
    /\ ssInitialized = FALSE
    /\ cmInitialized = FALSE
    /\ unloadHandler = FALSE
    /\ inits = [c \in Callers |-> NotCalled]
    /\ reg = Null
    /\ store = Null
    /\ user = Null
    /\ cookie = NoToken
    /\ rng = [s \in RandomUses |-> 0]
    /\ epoch = 1
    /\ fpReturned = {}

Init ==
    /\ InitServer
    /\ InitBrowser
    /\ lastOp = [op |-> "init"]

browserVars == <<idb, localStore, secureDb, inits, vault, sessionKey, heap, ssInitialized, cmInitialized,
                 unloadHandler, reg, store, user, cookie, rng, epoch, fpReturned>>

SrvRegister ==
    \E req \in RegisterRequests, fault \in RegisterFaults :
        /\ nextId <= MaxIds
        /\ Serve(RegisterHandler(req, fault))
        /\ lastOp' = [op |-> "srv_register", resp |-> RegisterHandler(req, fault).resp]
        /\ UNCHANGED browserVars

SrvLogin ==
    \E req \in LoginRequests, fault \in LoginFaults :
        /\ Serve(LoginHandler(req, fault))
        /\ lastOp' = [op |-> "srv_login", resp |-> LoginHandler(req, fault).resp]
        /\ UNCHANGED browserVars

SrvLogout ==
    /\ Serve(LogoutHandler)
    /\ lastOp' = [op |-> "srv_logout", resp |-> LogoutHandler.resp]
    /\ UNCHANGED browserVars

SrvReset ==
    \E fail \in BOOLEAN :
        /\ Serve(EraseDBDataHandler(fail))
        /\ lastOp' = [op |-> "srv_reset", resp |-> EraseDBDataHandler(fail).resp]
        /\ UNCHANGED browserVars

\* a path the router has no route for (chi answers 404 and runs no handler)
NotFoundHandler ==
    Outcome(users, devices, nextId, Reply(404, "404 page not found", NoToken, FALSE))

\* a master device asks the server to approve the device with fingerprint fp
\* for the account of username: the router has no such route
SrvApproveDevice ==
    \E u \in Usernames, fp \in ServerFingerprints \ {NoFp} :
        /\ \E x \in users : x.username = u
        /\ ~\E d \in devices : d.device_fingerprint = fp
        /\ Serve(NotFoundHandler)
        /\ lastOp' = [op |-> "srv_approve", resp |-> NotFoundHandler.resp,
                      username |-> u, device_fingerprint |-> fp]
        /\ UNCHANGED browserVars

NextServer == SrvRegister \/ SrvLogin \/ SrvLogout \/ SrvReset \/ SrvApproveDevice

SpecServer == Init /\ [][NextServer]_vars

(***************************************************************************)
(* The server's token check: internal/auth/jwt.go and AuthMiddleware, on   *)
(* the requests of any client at any reading of the clock.                 *)
(***************************************************************************)
MaxClock == 3       \* readings of time.Now().Unix(), and exp values
MaxClaimIds == 2    \* user and device ids in token claims

jwtSecret == "your-secret-key-change-this-in-production"

\* sign: HMAC-SHA256 of the message under a key
HmacSha256(key, message) == [type |-> "hmac", key |-> key, of |-> message]
sign(message) == HmacSha256(jwtSecret, message)

\* header.claims.signature; parts is what strings.Split(tokenString, ".") counts
TokenString(claims, signature) ==
    [type |-> "token", parts |-> 3, claims |-> claims, signature |-> signature]
Malformed == [type |-> "token", parts |-> 2]

ClaimsSet ==
    [user_id : 1..MaxClaimIds, device_id : 1..MaxClaimIds, exp : 0..MaxClock]

\* tokens a client may send: issued by the server, signed under another key,
\* carrying the signature of other claims, and not of three parts
TokenStrings ==
    {TokenString(c, sign(c)) : c \in ClaimsSet}
        \cup {TokenString(c, HmacSha256("guess", c)) : c \in ClaimsSet}
        \cup {TokenString(c, sign([c EXCEPT !.exp = 0])) : c \in ClaimsSet}
        \cup {Malformed}

NoCookie == [type |-> "none"]
NoHeader == [scheme |-> ""]
Bearer(t) == [scheme |-> "Bearer", token |-> t]

\* cookie auth_token and header Authorization of a request
AuthRequests ==
    [cookie : {NoCookie, TokenString([user_id |-> 1, device_id |-> 2, exp |-> 2],
                                     sign([user_id |-> 1, device_id |-> 2, exp |-> 2])),
               Malformed},
     authorization : {NoHeader, [scheme |-> "Basic", token |-> Malformed]}
                        \cup {Bearer(t) : t \in TokenStrings}]
        \cup [cookie : TokenStrings, authorization : {NoHeader}]

\* auth.ExtractToken
ExtractToken(authHeader) ==
    IF authHeader = NoHeader THEN [token |-> Null, err |-> "authorization header missing"]
    ELSE IF authHeader.scheme # "Bearer"
    THEN [token |-> Null, err |-> "invalid authorization header format"]
    ELSE [token |-> authHeader.token, err |-> ""]

\* auth.ExtractTokenFromRequest
ExtractTokenFromRequest(r) ==
    IF r.cookie # NoCookie THEN [token |-> r.cookie, err |-> ""]
    ELSE ExtractToken(r.authorization)

\* ValidateToken without the comparison of the clock with exp
ValidateToken_NoExpiry(tokenString, now) ==
    IF tokenString.parts # 3 THEN [claims |-> Null, err |-> "invalid token format"]
    ELSE IF tokenString.signature # sign(tokenString.claims)
    THEN [claims |-> Null, err |-> "invalid signature"]
    ELSE [claims |-> tokenString.claims, err |-> ""]

\* auth.ValidateToken; now is time.Now().Unix()
ValidateToken(tokenString, now) ==
    IF tokenString.parts # 3 THEN [claims |-> Null, err |-> "invalid token format"]
    ELSE IF tokenString.signature # sign(tokenString.claims)
    THEN [claims |-> Null, err |-> "invalid signature"]
    ELSE IF now > tokenString.claims.exp
    THEN [claims |-> Null, err |-> "token expired"]
    ELSE [claims |-> tokenString.claims, err |-> ""]

\* Handler.AuthMiddleware around a handler: whether next.ServeHTTP was called,
\* the user and device id put in the request context, and the answer of the
\* middleware when it was not
Protected(r, now) ==
    LET e == ExtractTokenFromRequest(r)
        v == ValidateToken(e.token, now)
    IN  IF e.err # ""
        THEN [ran |-> FALSE, status |-> 401, body |-> "unauthorized", ctx |-> Null]
        ELSE IF v.err # ""
        THEN [ran |-> FALSE, status |-> 401, body |-> "invalid token", ctx |-> Null]
        ELSE [ran |-> TRUE, status |-> 200, body |-> "",
              ctx |-> [user_id |-> v.claims.user_id, device_id |-> v.claims.device_id]]

\* a request to a protected route
SrvProtected ==
    \E r \in AuthRequests, now \in 0..MaxClock :
        /\ lastOp' = [op |-> "srv_protected", request |-> r, now |-> now,
                      out |-> Protected(r, now)]
        /\ UNCHANGED <<serverVars, browserVars>>

NextAuth == SrvProtected

SpecAuth == Init /\ [][NextAuth]_vars

(***************************************************************************)
(* The rate limiter of the server: one goroutine per request, the map of  *)
(* limiters behind the mutex mu. Each action is one critical section of   *)
(* mu, or a step that does not touch the map.                              *)
(***************************************************************************)
\* the address a request is counted under: X-Forwarded-For when it is set
ClientIP(remoteAddr, forwarded) == IF forwarded # "" THEN forwarded ELSE remoteAddr

\* RateLimitMiddleware up to the call of GetLimiter
RateLimitMiddleware(g) ==
    \E remoteAddr \in {"10.0.0.1"}, forwarded \in {"", "10.0.0.2"} :
        /\ requests[g].pc = "idle"
        /\ requests' = [requests EXCEPT
                          ![g] = [pc |-> "get", ip |-> ClientIP(remoteAddr, forwarded)]]
        /\ lastOp' = [op |-> "rl_request", g |-> g]
        /\ UNCHANGED <<tables, ipLimiter, browserVars>>

\* what a request is handed: the limiter, and the cleanups run till then
Handed(g, limiter) ==
    [pc |-> "allow", ip |-> requests[g].ip, limiter |-> limiter,
     cleanups |-> ipLimiter.cleanups]

\* GetLimiter between Lock and Unlock: the lookup
GetLimiter(g) ==
    LET ip == requests[g].ip
        exists == ip \in DOMAIN ipLimiter.ips
    IN  /\ requests[g].pc = "get"
        /\ requests' = [requests EXCEPT
                          ![g] = IF exists THEN Handed(g, ipLimiter.ips[ip])
                                 ELSE [pc |-> "add", ip |-> ip]]
        /\ lastOp' = [op |-> "rl_get", g |-> g, exists |-> exists]
        /\ UNCHANGED <<tables, ipLimiter, browserVars>>

\* AddIP between Lock and Unlock: a new limiter is put in the map
AddIP(g) ==
    LET ip == requests[g].ip
        limiter == Len(ipLimiter.tokens) + 1
    IN  /\ requests[g].pc = "add"
        /\ Len(ipLimiter.tokens) < MaxLimiters
        /\ ipLimiter' = [ipLimiter EXCEPT
                           !.ips = (ip :> limiter) @@ ipLimiter.ips,
                           !.tokens = Append(ipLimiter.tokens, MaxBurst)]
        /\ requests' = [requests EXCEPT ![g] = Handed(g, limiter)]
        /\ lastOp' = [op |-> "rl_add", g |-> g]
        /\ UNCHANGED <<tables, browserVars>>

\* limiter.Allow(), and the answer of the middleware
Allow(g) ==
    LET limiter == requests[g].limiter
        allowed == ipLimiter.tokens[limiter] > 0
    IN  /\ requests[g].pc = "allow"
        /\ ipLimiter' = [ipLimiter EXCEPT
                           !.tokens[limiter] = IF allowed THEN @ - 1 ELSE @]
        /\ requests' = [requests EXCEPT
                          ![g] = [requests[g] EXCEPT !.pc = "done"]
                                   @@ [status |-> IF allowed THEN 200 ELSE 429]]
        /\ lastOp' = [op |-> "rl_allow", g |-> g, allowed |-> allowed]
        /\ UNCHANGED <<tables, browserVars>>

\* a tick of the ticker of CleanupOldIPs
CleanupOldIPs ==
    /\ ipLimiter.cleanups < MaxCleanups
    /\ ipLimiter' = IF Cardinality(DOMAIN ipLimiter.ips) > CleanupAbove
                    THEN [ipLimiter EXCEPT !.ips = [a \in {} |-> 0],
                                           !.cleanups = @ + 1]
                    ELSE ipLimiter
    /\ lastOp' = [op |-> "rl_cleanup",
                  emptied |-> Cardinality(DOMAIN ipLimiter.ips) > CleanupAbove]
    /\ UNCHANGED <<tables, requests, browserVars>>

NextRateLimit ==
    \/ \E g \in Goroutines : RateLimitMiddleware(g)
    \/ \E g \in Goroutines : GetLimiter(g)
    \/ \E g \in Goroutines : AddIP(g)
    \/ \E g \in Goroutines : Allow(g)
    \/ CleanupOldIPs

SpecRateLimit == Init /\ [][NextRateLimit]_vars


(***************************************************************************)
(* The vault-entry store of the server: create and list.                   *)
(***************************************************************************)
MaxVaultRows == 2       \* rows of vault_entries
MaxNonces == 4          \* nonces a client draws for entries

\* the session tokens a client may hold: none, one of an account that is gone,
\* and those LoginHandler and RegisterHandler issue for the accounts there are
Tokens ==
    {NoToken, GenerateToken(0, "alice", 0)}
        \cup {GenerateToken(d.user_id, x.username, d.device_id) :
                 <<x, d>> \in {p \in users \X devices : p[1].user_id = p[2].user_id}}

\* what encryptVaultEntry returns to a client holding the identity key 0
VaultPayloads == Payloads \cup {"pin"}
EncryptedPayload(d, n) ==
    to_base64(Combine(Nonce("entry", n),
                      crypto_secretbox_easy(from_string(JSONstringify(d)),
                                            Nonce("entry", n),
                                            crypto_generichash(PrivateKey("enc", 0)))))
VaultEntryRequests ==
    [title : {"t"}, entry_type : {"password"},
     encrypted_data : {EncryptedPayload(d, n) : d \in VaultPayloads, n \in 1..MaxNonces}]

SrvCreateVaultEntry ==
    \E token \in Tokens, req \in VaultEntryRequests :
        LET out == CreateVaultEntryHandler(token, req)
        IN  /\ Len(vaultEntries) < MaxVaultRows
            /\ nextId <= MaxIds + MaxVaultRows
            /\ Serve(out)
            /\ lastOp' = [op |-> "srv_create_entry", resp |-> out.resp, token |-> token,
                          req |-> req]
            /\ UNCHANGED browserVars

SrvGetVaultEntries ==
    \E token \in Tokens :
        /\ UNCHANGED serverVars
        /\ lastOp' = [op |-> "srv_list_entries",
                      resp |-> GetVaultEntriesHandler(vaultEntries, token), token |-> token]
        /\ UNCHANGED browserVars

\* the entry ids a client may name: those there are, and one there is not
EntryIds == {vaultEntries[i].entry_id : i \in DOMAIN vaultEntries} \cup {0}

\* the body of an update: a new title, and a payload the server takes or one
\* it refuses
UpdateRequests ==
    [title : {"u"}, entry_type : {"password"},
     encrypted_data : {EncryptedPayload("pin", MaxNonces), EncryptedPayload("bank", 1)}]

SrvUpdateVaultEntry ==
    \E token \in Tokens, entryID \in EntryIds, req \in UpdateRequests :
        LET out == UpdateVaultEntryHandler(token, entryID, req)
        IN  /\ Serve(out)
            /\ lastOp' = [op |-> "srv_update_entry", resp |-> out.resp, token |-> token,
                          entry_id |-> entryID, req |-> req, before |-> vaultEntries]
            /\ UNCHANGED browserVars

SrvDeleteVaultEntry ==
    \E token \in Tokens, entryID \in EntryIds :
        LET out == DeleteVaultEntryHandler(token, entryID)
        IN  /\ Serve(out)
            /\ lastOp' = [op |-> "srv_delete_entry", resp |-> out.resp, token |-> token,
                          entry_id |-> entryID, before |-> vaultEntries]
            /\ UNCHANGED browserVars

\* the vault store is exercised with the accounts alice and bob register
VaultStoreRegister ==
    /\ SrvRegister
    /\ \A x \in users' :
          /\ x.password_hash = HashPassword("pw1")
          /\ <<x.username, x.email>> \in {<<"alice", "a@x">>, <<"bob", "b@x">>}

NextVaultStore ==
    \/ VaultStoreRegister
    \/ SrvReset
    \/ SrvCreateVaultEntry
    \/ SrvGetVaultEntries
    \/ SrvUpdateVaultEntry
    \/ SrvDeleteVaultEntry

SpecVaultStore == Init /\ [][NextVaultStore]_vars

(***************************************************************************)
(* Browser: SecureStorage.  An operation takes the browser context b (the  *)
(* page's memory, the random source and IndexedDB) and returns the context *)
(* after it, the value it resolves to and the message of the error it      *)
(* throws ("" when it does not throw).                                     *)
(***************************************************************************)
Zero == [type |-> "zero"]

\* randombytes_buf / crypto_*_keypair / Math.random: the next fresh value for use s
Fresh(b, s) == b.rng[s] + 1
Drawn(b, s) == [b EXCEPT !.rng[s] = @ + 1]
WithinBounds(b) ==
    /\ b.rng["masterKeys"] <= MaxRegs
    /\ b.rng["deviceKeys"] <= MaxRegs
    /\ b.rng["fingerprint"] <= MaxFps
    /\ b.rng["set"] <= MaxSets
SessionKeyBytes(a) == [type |-> "key", id |-> a]

Ctx == [sessionKey |-> sessionKey, heap |-> heap, ssInitialized |-> ssInitialized,
        cmInitialized |-> cmInitialized, unloadHandler |-> unloadHandler,
        rng |-> rng, idb |-> idb]

Ret(b, val, threw) == [b |-> b, val |-> val, threw |-> threw]

Lookup(f, k) == IF k \in DOMAIN f THEN f[k] ELSE Null
Put(f, k, v) == [x \in DOMAIN f \cup {k} |-> IF x = k THEN v ELSE f[x]]
Delete(f, k) == [x \in DOMAIN f \ {k} |-> f[x]]

NotInitialized == "Secure storage not initialized"

\* SecureStorage.init
StorageInit(b) ==
    IF b.ssInitialized THEN b
    ELSE LET a == Fresh(b, "sessionKey")
             b1 == IF b.sessionKey = 0
                   THEN [Drawn(b, "sessionKey") EXCEPT
                            !.sessionKey = a, !.heap = Put(b.heap, a, SessionKeyBytes(a))]
                   ELSE b
         IN  [b1 EXCEPT !.unloadHandler = TRUE, !.ssInitialized = TRUE]

\* the listener without sodium.memzero: it only drops the reference
BeforeUnloadHandler_NoMemzero(b) ==
    IF b.sessionKey # 0 THEN [b EXCEPT !.sessionKey = 0] ELSE b

\* the beforeunload listener registered by SecureStorage.init
BeforeUnloadHandler(b) ==
    IF b.sessionKey # 0
    THEN [b EXCEPT !.heap = Put(b.heap, b.sessionKey, Zero), !.sessionKey = 0]
    ELSE b

\* SecureStorage.encryptData
encryptData(b, data) ==
    IF b.sessionKey = 0 THEN Ret(b, Null, NotInitialized)
    ELSE LET nonce == Nonce("set", Fresh(b, "set"))
             message == from_string(data)
             ciphertext == crypto_secretbox_easy(message, nonce, b.heap[b.sessionKey])
         IN  Ret(Drawn(b, "set"), to_base64(Combine(nonce, ciphertext)), "")

\* decryptData opening the whole stored string as the ciphertext, without
\* splitting the nonce off
decryptData_NoSlice(b, encryptedData) ==
    IF b.sessionKey = 0 THEN Ret(b, Null, NotInitialized)
    ELSE LET combined == from_base64(encryptedData)
             decrypted == crypto_secretbox_open_easy(combined, SliceNonce(combined),
                                                     b.heap[b.sessionKey])
         IN  IF decrypted = Failure THEN Ret(b, Null, "wrong secret key for the given ciphertext")
             ELSE Ret(b, to_string(decrypted), "")

\* SecureStorage.decryptData
decryptData(b, encryptedData) ==
    IF b.sessionKey = 0 THEN Ret(b, Null, NotInitialized)
    ELSE LET combined == from_base64(encryptedData)
             nonce == SliceNonce(combined)
             ciphertext == SliceCiphertext(combined)
             decrypted == crypto_secretbox_open_easy(ciphertext, nonce, b.heap[b.sessionKey])
         IN  IF decrypted = Failure THEN Ret(b, Null, "wrong secret key for the given ciphertext")
             ELSE Ret(b, to_string(decrypted), "")

\* SecureStorage.set
StorageSet(b, key, value) ==
    LET e == encryptData(b, value)
    IN  IF e.threw # "" THEN Ret(b, Null, e.threw)
        ELSE Ret([e.b EXCEPT !.idb = Put(e.b.idb, key, e.val)], Null, "")

\* get without the try/catch around decryptData
StorageGet_NoCatch(b, key) ==
    IF Lookup(b.idb, key) # Null
    THEN LET d == decryptData(b, b.idb[key])
         IN  IF d.threw # "" THEN Ret(b, Null, d.threw) ELSE Ret(b, d.val, "")
    ELSE Ret(b, Null, "")

\* SecureStorage.get
StorageGet(b, key) ==
    IF Lookup(b.idb, key) # Null
    THEN LET d == decryptData(b, b.idb[key])
         IN  IF d.threw # "" THEN Ret(b, Null, "") ELSE Ret(b, d.val, "")
    ELSE Ret(b, Null, "")

\* SecureStorage.remove
StorageRemove(b, key) == Ret([b EXCEPT !.idb = Delete(b.idb, key)], Null, "")

(***************************************************************************)
(* Browser: CryptoManager                                                  *)
(***************************************************************************)
\* CryptoManager.init
CryptoInit(b) ==
    IF b.cmInitialized THEN b
    ELSE [StorageInit(b) EXCEPT !.cmInitialized = TRUE]

\* CryptoManager.generateDeviceFingerprint
generateDeviceFingerprint(b) ==
    LET stored == StorageGet(b, "device_fingerprint").val
    IN  IF stored # Null THEN Ret(b, stored, "")
        ELSE LET r == Fresh(b, "fingerprint")
                 fingerprint == Fingerprint(r)
                 w == StorageSet(Drawn(b, "fingerprint"), "device_fingerprint", fingerprint)
             IN  IF w.threw # "" THEN Ret(w.b, Null, w.threw)
                 ELSE Ret(w.b, fingerprint, "")

\* generateMasterKeys wrapping both private keys with the one nonce
generateMasterKeys_SharedNonce(b, password) ==
    LET b1 == CryptoInit(b)
        n == Fresh(b1, "masterKeys")
        salt == [type |-> "salt", id |-> n]
        masterKey == deriveKeyFromPassword(password, salt)
        encNonce == Nonce("encNonce", n)
        encPrivKeyEncrypted ==
            crypto_secretbox_easy(PrivateKey("enc", n), encNonce, masterKey)
        signPrivKeyEncrypted ==
            crypto_secretbox_easy(PrivateKey("sign", n), encNonce, masterKey)
    IN  Ret(Drawn(b1, "masterKeys"),
            [salt |-> to_base64(salt),
             encPublicKey |-> to_base64(PublicKey("enc", n)),
             encPrivateKey |-> to_base64(Combine(encNonce, encPrivKeyEncrypted)),
             signPublicKey |-> to_base64(PublicKey("sign", n)),
             signPrivateKey |-> to_base64(Combine(encNonce, signPrivKeyEncrypted))],
            "")

\* CryptoManager.generateMasterKeys
generateMasterKeys(b, password) ==
    LET b1 == CryptoInit(b)
        n == Fresh(b1, "masterKeys")
        salt == [type |-> "salt", id |-> n]
        masterKey == deriveKeyFromPassword(password, salt)
        encId == n
        signId == n
        encNonce == Nonce("encNonce", n)
        signNonce == Nonce("signNonce", n)
        encPrivKeyEncrypted ==
            crypto_secretbox_easy(PrivateKey("enc", encId), encNonce, masterKey)
        signPrivKeyEncrypted ==
            crypto_secretbox_easy(PrivateKey("sign", signId), signNonce, masterKey)
    IN  Ret(Drawn(b1, "masterKeys"),
            [salt |-> to_base64(salt),
             encPublicKey |-> to_base64(PublicKey("enc", encId)),
             encPrivateKey |-> to_base64(Combine(encNonce, encPrivKeyEncrypted)),
             signPublicKey |-> to_base64(PublicKey("sign", signId)),
             signPrivateKey |-> to_base64(Combine(signNonce, signPrivKeyEncrypted))],
            "")

\* CryptoManager.generateDeviceKeys
generateDeviceKeys(b) ==
    LET b1 == CryptoInit(b)
        n == Fresh(b1, "deviceKeys")
    IN  Ret(Drawn(b1, "deviceKeys"),
            [publicKey |-> to_base64(PublicKey("dev", n)),
             privateKey |-> to_base64(PrivateKey("dev", n))],
            "")

\* CryptoManager.getMasterKeys
getMasterKeys(b) ==
    [encPrivateKey |-> StorageGet(b, "master_enc_sk").val,
     signPrivateKey |-> StorageGet(b, "master_sign_sk").val,
     devicePrivateKey |-> StorageGet(b, "device_sk").val,
     isMasterDevice |-> StorageGet(b, "is_master_device").val = Str("true")]

\* the bytes CryptoManager.encryptVaultEntry / decryptVaultEntry hash into the entry key
VaultKeyInput(encPrivateKey) == from_base64(encPrivateKey)

KeyNotFound == "Master encryption key not found"

\* what encryptVaultEntry / decryptVaultEntry pass to crypto_generichash in
\* context b (Null when they throw before computing the key)
HashedBytes(b) ==
    LET keys == getMasterKeys(b)
    IN  IF keys.encPrivateKey = Null THEN Null ELSE VaultKeyInput(keys.encPrivateKey)

\* encryptVaultEntry returning the ciphertext without the nonce in front
encryptVaultEntry_CiphertextOnly(b, data) ==
    LET b1 == CryptoInit(b)
        keys == getMasterKeys(b1)
    IN  IF keys.encPrivateKey = Null THEN Ret(b1, Null, KeyNotFound)
        ELSE LET privateKeyBytes == VaultKeyInput(keys.encPrivateKey)
                 key == crypto_generichash(privateKeyBytes)
                 nonce == Nonce("entry", Fresh(b1, "entry"))
                 message == from_string(JSONstringify(data))
                 ciphertext == crypto_secretbox_easy(message, nonce, key)
             IN  Ret(Drawn(b1, "entry"), to_base64(ciphertext), "")

\* CryptoManager.encryptVaultEntry
encryptVaultEntry(b, data) ==
    LET b1 == CryptoInit(b)
        keys == getMasterKeys(b1)
    IN  IF keys.encPrivateKey = Null THEN Ret(b1, Null, KeyNotFound)
        ELSE LET privateKeyBytes == VaultKeyInput(keys.encPrivateKey)
                 key == crypto_generichash(privateKeyBytes)
                 nonce == Nonce("entry", Fresh(b1, "entry"))
                 message == from_string(JSONstringify(data))
                 ciphertext == crypto_secretbox_easy(message, nonce, key)
             IN  Ret(Drawn(b1, "entry"), to_base64(Combine(nonce, ciphertext)), "")

\* decryptVaultEntry handing back whatever bytes it has when the box does not
\* open, instead of throwing
decryptVaultEntry_Partial(b, encryptedData) ==
    LET b1 == CryptoInit(b)
        keys == getMasterKeys(b1)
    IN  IF keys.encPrivateKey = Null THEN Ret(b1, Null, KeyNotFound)
        ELSE LET privateKeyBytes == VaultKeyInput(keys.encPrivateKey)
                 key == crypto_generichash(privateKeyBytes)
                 combined == from_base64(encryptedData)
                 nonce == SliceNonce(combined)
                 ciphertext == SliceCiphertext(combined)
                 decrypted == crypto_secretbox_open_easy(ciphertext, nonce, key)
             IN  Ret(b1, JSONparse(to_string(decrypted)), "")

\* CryptoManager.decryptVaultEntry
decryptVaultEntry(b, encryptedData) ==
    LET b1 == CryptoInit(b)
        keys == getMasterKeys(b1)
    IN  IF keys.encPrivateKey = Null THEN Ret(b1, Null, KeyNotFound)
        ELSE LET privateKeyBytes == VaultKeyInput(keys.encPrivateKey)
                 key == crypto_generichash(privateKeyBytes)
                 combined == from_base64(encryptedData)
                 nonce == SliceNonce(combined)
                 ciphertext == SliceCiphertext(combined)
                 decrypted == crypto_secretbox_open_easy(ciphertext, nonce, key)
             IN  IF decrypted = Failure
                 THEN Ret(b1, Null, "wrong secret key for the given ciphertext")
                 ELSE Ret(b1, JSONparse(to_string(decrypted)), "")

\* CryptoManager.clearStoredKeys
clearStoredKeys(b) ==
    LET b1 == StorageRemove(b, "master_enc_sk").b
        b2 == StorageRemove(b1, "master_sign_sk").b
        b3 == StorageRemove(b2, "device_sk").b
        b4 == StorageRemove(b3, "is_master_device").b
    IN  StorageRemove(b4, "device_fingerprint").b

\* the context becomes the browser's state
\* sodium.ready has not resolved in this page: nothing is past an
\* `await sodium.ready` yet
SodiumPending ==
    /\ sessionKey = 0
    /\ ~unloadHandler
    /\ \A c \in Callers : inits[c].pc # "opening"

\* an event or an IndexedDB callback is a task of its own: it runs when no
\* continuation is queued. A call waiting at `await sodium.ready` goes on in
\* the same turn once sodium.ready has resolved, so no task comes in between
TaskBoundary == (\E c \in Callers : inits[c].pc = "ready") => SodiumPending

\* the beforeunload listener has zeroized and dropped the session key
TornDown == unloadHandler /\ sessionKey = 0

Commit(b) ==
    /\ sessionKey' = b.sessionKey
    /\ heap' = b.heap
    /\ ssInitialized' = b.ssInitialized
    /\ cmInitialized' = b.cmInitialized
    /\ unloadHandler' = b.unloadHandler
    /\ rng' = b.rng
    /\ idb' = b.idb

(***************************************************************************)
(* Browser: the registration flow (RegisterWithSteps.handleRegister)       *)
(***************************************************************************)
\* The person at the keyboard starts something new only when no registration
\* is running and the key store it started (step 4, not awaited, followed by
\* a 500 ms wait) has settled; page events and step 5 are not held back.
Idle == reg = Null /\ store = Null

\* steps 1 and 2: initCrypto, generateMasterKeys(password)
HandleRegister_GenerateKeys ==
    \E u \in Usernames, p \in Passwords :
        LET e == IF u = "alice" THEN "a@x" ELSE "b@x"
            g == generateMasterKeys(CryptoInit(Ctx), p)
        IN  /\ Idle
            /\ WithinBounds(g.b)
            /\ Commit(g.b)
            /\ reg' = [pc |-> 3, username |-> u, email |-> e, password |-> p,
                       masterKeys |-> g.val]
            /\ lastOp' = [op |-> "register_keys"]
            /\ UNCHANGED <<serverVars, localStore, secureDb, inits, vault, store, user, cookie, epoch,
                           fpReturned>>

\* step 3: generateDeviceKeys, generateDeviceFingerprint
HandleRegister_SetupDevice ==
    LET k == generateDeviceKeys(Ctx)
        f == generateDeviceFingerprint(k.b)
    IN  /\ reg # Null
        /\ reg.pc = 3
        /\ WithinBounds(f.b)
        /\ Commit(f.b)
        /\ IF f.threw # ""
           THEN /\ reg' = Null
                /\ fpReturned' = fpReturned
           ELSE /\ reg' = [pc |-> 4, username |-> reg.username, email |-> reg.email,
                           password |-> reg.password, masterKeys |-> reg.masterKeys,
                           deviceKeys |-> k.val, deviceFingerprint |-> f.val]
                /\ fpReturned' = fpReturned \cup {f.val}
        /\ lastOp' = [op |-> "register_device", error |-> f.threw]
        /\ UNCHANGED <<serverVars, localStore, secureDb, inits, vault, store, user, cookie, epoch>>

\* step 4: storeMasterKeys(...) is called and not awaited
HandleRegister_StoreKeys ==
    /\ reg # Null
    /\ reg.pc = 4
    /\ store' = [pc |-> 1, encPrivateKey |-> reg.masterKeys.encPrivateKey,
                 signPrivateKey |-> reg.masterKeys.signPrivateKey,
                 devicePrivateKey |-> reg.deviceKeys.privateKey]
    /\ reg' = [reg EXCEPT !.pc = 5]
    /\ lastOp' = [op |-> "register_store"]
    /\ UNCHANGED <<serverVars, idb, localStore, secureDb, inits, vault, sessionKey, heap, ssInitialized,
                   cmInitialized, unloadHandler, user, cookie, rng, epoch, fpReturned>>

\* CryptoManager.storeMasterKeys: one awaited storage.set per step
StoreName(pc) ==
    CASE pc = 1 -> "master_enc_sk"
      [] pc = 2 -> "master_sign_sk"
      [] pc = 3 -> "device_sk"
      [] OTHER -> "is_master_device"

StoreValue(st) ==
    CASE st.pc = 1 -> st.encPrivateKey
      [] st.pc = 2 -> st.signPrivateKey
      [] st.pc = 3 -> st.devicePrivateKey
      [] OTHER -> Str("true")

storeMasterKeys ==
    LET w == StorageSet(Ctx, StoreName(store.pc), StoreValue(store))
    IN  /\ store # Null
        /\ WithinBounds(w.b)
        /\ Commit(w.b)
        /\ store' = IF w.threw # "" \/ store.pc = 4 THEN Null
                    ELSE [store EXCEPT !.pc = @ + 1]
        /\ lastOp' = [op |-> "store", error |-> w.threw, name |-> StoreName(store.pc),
                      value |-> StoreValue(store)]
        /\ UNCHANGED <<serverVars, localStore, secureDb, inits, vault, reg, user, cookie, epoch,
                       fpReturned>>

\* a payload that carries the device's private key in place of the public one
RegisterPayload_PrivateDeviceKey(r) ==
    [username |-> r.username, email |-> r.email, password |-> r.password,
     pk_encrypt |-> r.masterKeys.encPublicKey,
     pk_sign |-> r.masterKeys.signPublicKey,
     device_fingerprint |-> r.deviceFingerprint,
     pk_device |-> r.deviceKeys.privateKey]

\* the argument of registerUser in step 5, from the locals r of handleRegister
RegisterPayload(r) ==
    [username |-> r.username, email |-> r.email, password |-> r.password,
     pk_encrypt |-> r.masterKeys.encPublicKey,
     pk_sign |-> r.masterKeys.signPublicKey,
     device_fingerprint |-> r.deviceFingerprint,
     pk_device |-> r.deviceKeys.publicKey]

\* step 5: registerUser(...), then navigate("/vault")
HandleRegister_RegisterUser ==
    \E fault \in RegisterFaults :
        LET req == RegisterPayload(reg)
            out == RegisterHandler(req, fault)
            ok == out.resp.status = 201
        IN  /\ reg # Null
            /\ reg.pc = 5
            /\ nextId <= MaxIds
            /\ Serve(out)
            /\ reg' = Null
            /\ cookie' = IF ok THEN out.resp.cookie ELSE cookie
            /\ lastOp' = [op |-> "registered", resp |-> out.resp,
                          error |-> IF ok THEN "" ELSE out.resp.body,
                          view |-> IF ok THEN "vault" ELSE "register",
                          salt |-> reg.masterKeys.salt]
            /\ UNCHANGED <<idb, localStore, secureDb, inits, vault, sessionKey, heap, ssInitialized,
                           cmInitialized, unloadHandler, store, user, rng, epoch,
                           fpReturned>>

(***************************************************************************)
(* Browser: login, logout, page life cycle, vault entries                  *)
(***************************************************************************)
NoKeysNotMaster ==
    "This device is not registered. Please use your master device or register this device."
NoKeysMaster ==
    "Master device keys not found on this device. You may need to set up a new master device."
NoResponse == Reply(0, "", NoToken, FALSE)

\* LoginUpdated.handleLogin
HandleLogin ==
    \E u \in Usernames, p \in Passwords, fault \in LoginFaults :
        LET f == generateDeviceFingerprint(Ctx)
            out == LoginHandler([username |-> u, password |-> p,
                                 device_fingerprint |-> f.val], fault)
            hasKeys == getMasterKeys(f.b).encPrivateKey # Null
            sent == f.threw = ""
            ok == sent /\ out.resp.status = 200
            error == IF ~sent THEN f.threw
                     ELSE IF ~ok THEN out.resp.body
                     ELSE IF hasKeys THEN ""
                     ELSE IF out.resp.is_master THEN NoKeysMaster
                     ELSE NoKeysNotMaster
        IN  /\ Idle
            /\ WithinBounds(f.b)
            /\ Commit(f.b)
            /\ IF sent THEN Serve(out) ELSE UNCHANGED serverVars
            /\ fpReturned' = IF sent THEN fpReturned \cup {f.val} ELSE fpReturned
            /\ cookie' = IF ok THEN out.resp.cookie ELSE cookie
            /\ lastOp' = [op |-> "login", username |-> u, password |-> p,
                          device_fingerprint |-> IF sent THEN f.val ELSE NoFp,
                          resp |-> IF sent THEN out.resp ELSE NoResponse,
                          error |-> error,
                          view |-> IF error = "" THEN "vault" ELSE "login"]
            /\ UNCHANGED <<localStore, secureDb, inits, vault, reg, store, user, epoch>>

\* Navigation.handleLogout -> AuthContext.logout; reached: the logout request
\* gets to the server (its failure is caught and logged)
Logout ==
    \E reached \in BOOLEAN :
    /\ user # Null
    /\ Serve(LogoutHandler)
    /\ cookie' = IF reached THEN LogoutHandler.resp.cookie ELSE cookie
    /\ user' = Null
    /\ lastOp' = [op |-> "logout", reached |-> reached, view |-> "login"]
    /\ UNCHANGED <<idb, localStore, secureDb, inits, vault, sessionKey, heap, ssInitialized, cmInitialized,
                   unloadHandler, reg, store, rng, epoch, fpReturned>>

\* the window's beforeunload event
BeforeUnload ==
    /\ TaskBoundary
    /\ Commit(IF unloadHandler THEN BeforeUnloadHandler(Ctx) ELSE Ctx)
    /\ inits' = [c \in Callers |->
                    IF inits[c].pc = "idle" THEN inits[c]
                    ELSE [inits[c] EXCEPT !.teardown = TRUE]]
    /\ lastOp' = [op |-> "beforeunload", handler |-> unloadHandler]
    /\ UNCHANGED <<serverVars, localStore, secureDb, vault, reg, store, user, cookie, epoch,
                   fpReturned>>

\* GET /api/user/me behind AuthMiddleware, as AuthProvider.checkAuth calls it
GetUserInfoHandler(token) ==
    IF token.type # "jwt" THEN Reply(401, "unauthorized", NoToken, FALSE)
    ELSE IF \E x \in users : x.user_id = token.user_id
    THEN Reply(200, "user", NoToken, FALSE)
    ELSE Reply(404, "user not found", NoToken, FALSE)

\* a new page: the module is evaluated afresh and AuthProvider mounts (checkAuth)
PageLoad ==
    LET me == GetUserInfoHandler(cookie)
    IN  /\ epoch < MaxEpoch
        /\ TaskBoundary
        /\ epoch' = epoch + 1
        /\ sessionKey' = 0
        /\ heap' = [a \in {} |-> Null]
        /\ ssInitialized' = FALSE
        /\ cmInitialized' = FALSE
        /\ unloadHandler' = FALSE
        /\ inits' = [c \in Callers |-> NotCalled]
        /\ reg' = Null
        /\ store' = Null
        /\ user' = IF me.status = 200
                   THEN [type |-> "user", id |-> cookie.user_id, username |-> cookie.username]
                   ELSE Null
        /\ lastOp' = [op |-> "pageload", resp |-> me, view |-> "home"]
        /\ UNCHANGED <<serverVars, idb, localStore, secureDb, vault, cookie, rng, fpReturned>>

\* a caller of encryptVaultEntry saves a new entry
EncryptEntry ==
    \E d \in Payloads :
        LET r == encryptVaultEntry(Ctx, d)
        IN  /\ Idle
            /\ Cardinality(vault) < MaxVault
            /\ WithinBounds(r.b)
            /\ Commit(r.b)
            /\ vault' = IF r.threw = ""
                        THEN vault \cup {[data |-> r.val, payload |-> d, epoch |-> epoch]}
                        ELSE vault
            /\ lastOp' = [op |-> "encrypt", error |-> r.threw, val |-> r.val,
                          hashed |-> HashedBytes(CryptoInit(Ctx))]
            /\ UNCHANGED <<serverVars, localStore, secureDb, inits, reg, store, user, cookie, epoch,
                           fpReturned>>

\* a caller of decryptVaultEntry opens a saved entry
DecryptEntry ==
    \E e \in vault :
        LET r == decryptVaultEntry(Ctx, e.data)
        IN  /\ Idle
            /\ WithinBounds(r.b)
            /\ Commit(r.b)
            /\ lastOp' = [op |-> "decrypt", entry |-> e, val |-> r.val, error |-> r.threw,
                          hashed |-> HashedBytes(CryptoInit(Ctx))]
            /\ UNCHANGED <<serverVars, localStore, secureDb, inits, vault, reg, store, user, cookie, epoch,
                           fpReturned>>

\* a blob nonce || ciphertext after an alteration outside the page: another
\* nonce, other ciphertext bytes, or a box made under another key
ForgedKey == [type |-> "key", id |-> 0]
Tampered(v) ==
    LET c == from_base64(v)
    IN  {to_base64(Combine(Nonce("forged", 0), SliceCiphertext(c))),
         to_base64(Combine(SliceNonce(c), [type |-> "forged", of |-> SliceCiphertext(c)])),
         to_base64(Combine(SliceNonce(c), [SliceCiphertext(c) EXCEPT !.key = ForgedKey]))}

\* VaultManager state: the snackbar before any message
NoSnackbar == [open |-> FALSE, message |-> ""]
DecryptFailedMessage == "Failed to decrypt entry. Check your master keys."

\* an element of VaultManager's entries as getVaultEntries returns it
ListedEntry(id, data) ==
    [entry_id |-> id, encrypted_data |-> data, decryptedData |-> Null,
     isDecrypting |-> FALSE]

\* setEntries((prev) => prev.map((e) =>
\*     e.entry_id === id ? { ...e, isDecrypting: flag } : e))
SetDecrypting(entries, id, flag) ==
    [i \in DOMAIN entries |->
        IF entries[i].entry_id = id THEN [entries[i] EXCEPT !.isDecrypting = flag]
        ELSE entries[i]]

\* setEntries((prev) => prev.map((e) =>
\*     e.entry_id === id ? { ...e, decryptedData: decrypted, isDecrypting: false } : e))
SetDecrypted(entries, id, decrypted) ==
    [i \in DOMAIN entries |->
        IF entries[i].entry_id = id
        THEN [entries[i] EXCEPT !.decryptedData = decrypted, !.isDecrypting = FALSE]
        ELSE entries[i]]

\* handleDecryptEntry without its catch block: the rejection leaves the handler
handleDecryptEntry_NoCatch(b, entries, snackbar, entry) ==
    IF entry.decryptedData # Null
    THEN [b |-> b, entries |-> entries, snackbar |-> snackbar, threw |-> ""]
    ELSE LET marked == SetDecrypting(entries, entry.entry_id, TRUE)
             r == decryptVaultEntry(b, entry.encrypted_data)
         IN  IF r.threw = ""
             THEN [b |-> r.b, entries |-> SetDecrypted(marked, entry.entry_id, r.val),
                   snackbar |-> snackbar, threw |-> ""]
             ELSE [b |-> r.b, entries |-> marked, snackbar |-> snackbar,
                   threw |-> r.threw]

\* VaultManager.handleDecryptEntry; threw is what decryptVaultEntry rejected
\* with (the handler itself never rejects)
handleDecryptEntry(b, entries, snackbar, entry) ==
    IF entry.decryptedData # Null
    THEN [b |-> b, entries |-> entries, snackbar |-> snackbar, threw |-> ""]
    ELSE LET marked == SetDecrypting(entries, entry.entry_id, TRUE)
             r == decryptVaultEntry(b, entry.encrypted_data)
         IN  IF r.threw = ""
             THEN [b |-> r.b, entries |-> SetDecrypted(marked, entry.entry_id, r.val),
                   snackbar |-> snackbar, threw |-> ""]
             ELSE [b |-> r.b,
                   entries |-> SetDecrypting(marked, entry.entry_id, FALSE),
                   snackbar |-> [open |-> TRUE, message |-> DecryptFailedMessage],
                   threw |-> r.threw]

\* the blob with other ciphertext bytes after the nonce
Corrupted(v) ==
    LET c == from_base64(v)
    IN  to_base64(Combine(SliceNonce(c), [type |-> "forged", of |-> SliceCiphertext(c)]))

\* the vault view lists an entry as it was saved and a copy of it corrupted in
\* the remote store, and the user clicks Decrypt on one of them
HandleDecryptEntry ==
    \E e \in vault, i \in 1..2 :
        LET listed == <<ListedEntry(1, e.data), ListedEntry(2, Corrupted(e.data))>>
            r == handleDecryptEntry(Ctx, listed, NoSnackbar, listed[i])
        IN  /\ Idle
            /\ WithinBounds(r.b)
            /\ Commit(r.b)
            /\ lastOp' = [op |-> "view_decrypt", listed |-> listed, clicked |-> i,
                          entries |-> r.entries,
                          snackbar |-> r.snackbar, threw |-> r.threw,
                          payload |-> e.payload]
            /\ UNCHANGED <<serverVars, localStore, secureDb, inits, vault, reg, store,
                           user, cookie, epoch, fpReturned>>

\* clearStoredKeys()
ClearStoredKeys ==
    /\ Idle
    /\ Commit(clearStoredKeys(Ctx))
    /\ lastOp' = [op |-> "clear"]
    /\ UNCHANGED <<serverVars, localStore, secureDb, inits, vault, reg, store, user, cookie, epoch,
                   fpReturned>>

Next ==
    \/ HandleRegister_GenerateKeys
    \/ HandleRegister_SetupDevice
    \/ HandleRegister_StoreKeys
    \/ storeMasterKeys
    \/ HandleRegister_RegisterUser
    \/ HandleLogin
    \/ Logout
    \/ BeforeUnload
    \/ PageLoad
    \/ EncryptEntry
    \/ DecryptEntry
    \/ ClearStoredKeys
    \/ HandleDecryptEntry

Spec == Init /\ [][Next]_vars

(***************************************************************************)
(* The helper module frontend/src/helpers (crypto.ts, register.ts), which  *)
(* keeps the key pairs unwrapped.                                          *)
(***************************************************************************)
MaxKeys == 2        \* key pairs the helper module generates

\* helpers/crypto.ts generateMasterKeys, generateDeviceKeys: the n-th key pairs
HelperMasterKeys(n) ==
    [encKeyPair |-> [publicKey |-> to_base64(PublicKey("enc", n)),
                     privateKey |-> to_base64(PrivateKey("enc", n))],
     signKeyPair |-> [publicKey |-> to_base64(PublicKey("sign", n)),
                      privateKey |-> to_base64(PrivateKey("sign", n))]]
HelperDeviceKeys(n) ==
    [publicKey |-> to_base64(PublicKey("dev", n)),
     privateKey |-> to_base64(PrivateKey("dev", n))]

\* secureSet: encrypts with the session key, stores in IndexedDB
secureSet(db, key, value) == Put(db, key, [type |-> "sealed", of |-> value])
\* secureRemove
secureRemove(db, key) == Delete(db, key)

\* helpers/crypto.ts storeMasterKeys; failAt is the secureSet call that throws
\* (0: none does)
HelperStoreMasterKeys(db, ls, encPrivateKey, signPrivateKey, devicePrivateKey, failAt) ==
    LET d1 == IF failAt = 1 THEN db ELSE secureSet(db, "master_enc_sk", encPrivateKey)
        d2 == IF failAt \in 1..2 THEN d1 ELSE secureSet(d1, "master_sign_sk", signPrivateKey)
        d3 == IF failAt \in 1..3 THEN d2 ELSE secureSet(d2, "device_sk", devicePrivateKey)
        d4 == IF failAt \in 1..4 THEN d3 ELSE secureSet(d3, "is_master_device", Str("true"))
        l1 == Put(ls, "master_enc_sk", encPrivateKey)
        l2 == Put(l1, "master_sign_sk", signPrivateKey)
        l3 == Put(l2, "device_sk", devicePrivateKey)
        l4 == Put(l3, "is_master_device", Str("true"))
    IN  [db |-> d4, ls |-> IF failAt = 0 THEN ls ELSE l4]

Helper_storeMasterKeys ==
    \E n \in 1..MaxKeys, failAt \in 0..4 :
        LET r == HelperStoreMasterKeys(secureDb, localStore,
                                       HelperMasterKeys(n).encKeyPair.privateKey,
                                       HelperMasterKeys(n).signKeyPair.privateKey,
                                       HelperDeviceKeys(n).privateKey, failAt)
        IN  /\ secureDb' = r.db
            /\ localStore' = r.ls
            /\ lastOp' = [op |-> "helper_store", fallback |-> failAt # 0]
            /\ UNCHANGED <<serverVars, idb, inits, vault, sessionKey, heap, ssInitialized,
                           cmInitialized, unloadHandler, reg, store, user, cookie, rng,
                           epoch, fpReturned>>

\* helpers/register.ts registerUser: POST http://localhost:8080/register is a
\* route the server does not have, so the request changes no table
Helper_registerUser ==
    \E n \in 1..MaxKeys :
        /\ localStore' = Put(Put(localStore, "enc_sk", to_base64(PrivateKey("enc", n))),
                             "sign_sk", to_base64(PrivateKey("sign", n)))
        /\ lastOp' = [op |-> "helper_register", error |-> "Error registering user"]
        /\ UNCHANGED <<serverVars, idb, secureDb, inits, vault, sessionKey, heap, ssInitialized,
                       cmInitialized, unloadHandler, reg, store, user, cookie, rng,
                       epoch, fpReturned>>

\* helpers/crypto.ts clearStoredKeys; failAt is the secureRemove call that
\* throws (0: none does)
Helper_clearStoredKeys ==
    \E failAt \in 0..4 :
        LET d1 == IF failAt = 1 THEN secureDb ELSE secureRemove(secureDb, "master_enc_sk")
            d2 == IF failAt \in 1..2 THEN d1 ELSE secureRemove(d1, "master_sign_sk")
            d3 == IF failAt \in 1..3 THEN d2 ELSE secureRemove(d2, "device_sk")
            d4 == IF failAt \in 1..4 THEN d3 ELSE secureRemove(d3, "is_master_device")
            names == {"master_enc_sk", "master_sign_sk", "device_sk", "is_master_device"}
        IN  /\ secureDb' = d4
            /\ localStore' = [k \in DOMAIN localStore \ names |-> localStore[k]]
            /\ lastOp' = [op |-> "helper_clear"]
            /\ UNCHANGED <<serverVars, idb, inits, vault, sessionKey, heap, ssInitialized,
                           cmInitialized, unloadHandler, reg, store, user, cookie, rng,
                           epoch, fpReturned>>

NextHelpers ==
    \/ Helper_storeMasterKeys
    \/ Helper_registerUser
    \/ Helper_clearStoredKeys

SpecHelpers == Init /\ [][NextHelpers]_vars

(***************************************************************************)
(* SecureStorage.init step by step: the call runs up to each await, and    *)
(* other calls and the page's events come in between.                      *)
(***************************************************************************)
\* init() up to `await sodium.ready`; it returns at once when initialized
Init_Call(c) ==
    /\ inits[c].pc = "idle"
    /\ inits' = [inits EXCEPT ![c] = IF ssInitialized THEN NotCalled
                                     ELSE [pc |-> "ready", teardown |-> FALSE]]
    /\ lastOp' = [op |-> "init_call", returned |-> ssInitialized, later |-> TornDown]
    /\ UNCHANGED <<serverVars, idb, localStore, secureDb, vault, sessionKey, heap,
                   ssInitialized, cmInitialized, unloadHandler, reg, store, user, cookie,
                   rng, epoch, fpReturned>>

\* init() generating a session key whether or not there is one
Init_Key_NoGuard(c) ==
    LET a == Fresh(Ctx, "sessionKey")
    IN  /\ inits[c].pc = "ready"
        /\ inits' = [inits EXCEPT ![c].pc = "opening"]
        /\ sessionKey' = a
        /\ heap' = Put(heap, a, SessionKeyBytes(a))
        /\ rng' = Drawn(Ctx, "sessionKey").rng
        /\ lastOp' = [op |-> "init_key", created |-> TRUE, later |-> TornDown]
        /\ UNCHANGED <<serverVars, idb, localStore, secureDb, vault, ssInitialized,
                       cmInitialized, unloadHandler, reg, store, user, cookie, epoch,
                       fpReturned>>

\* from sodium.ready to `await this.openDB()`: the session key is generated
\* unless there is one
Init_Key(c) ==
    LET a == Fresh(Ctx, "sessionKey")
    IN  /\ inits[c].pc = "ready"
        /\ inits' = [inits EXCEPT ![c].pc = "opening"]
        /\ IF sessionKey = 0
           THEN /\ sessionKey' = a
                /\ heap' = Put(heap, a, SessionKeyBytes(a))
                /\ rng' = Drawn(Ctx, "sessionKey").rng
           ELSE UNCHANGED <<sessionKey, heap, rng>>
        /\ lastOp' = [op |-> "init_key", created |-> sessionKey = 0, later |-> TornDown]
        /\ UNCHANGED <<serverVars, idb, localStore, secureDb, vault, ssInitialized,
                       cmInitialized, unloadHandler, reg, store, user, cookie, epoch,
                       fpReturned>>

\* openDB settles: when it resolves, the beforeunload listener is added and
\* initialized is set; when it rejects, init throws
Init_Opened(c) ==
    \E opened \in BOOLEAN :
        /\ inits[c].pc = "opening"
        /\ TaskBoundary
        /\ inits' = [inits EXCEPT ![c] = NotCalled]
        /\ unloadHandler' = (unloadHandler \/ opened)
        /\ ssInitialized' = (ssInitialized \/ opened)
        /\ lastOp' = [op |-> "init_done", opened |-> opened,
                      teardown |-> inits[c].teardown]
        /\ UNCHANGED <<serverVars, idb, localStore, secureDb, vault, sessionKey, heap,
                       cmInitialized, reg, store, user, cookie, rng, epoch, fpReturned>>

\* the names and values the callers of set and get use
StoredKeys == {"device_sk"}
StoredValues == {Str("v1"), Str("v2")}

\* set() up to `await this.openDB()`
Set_Call(c) ==
    \E key \in StoredKeys, value \in StoredValues :
        /\ inits[c].pc = "idle"
        /\ inits' = [inits EXCEPT ![c] = [pc |-> "set_open", teardown |-> FALSE,
                                          key |-> key, value |-> value,
                                          later |-> TornDown]]
        /\ lastOp' = [op |-> "set_call"]
        /\ UNCHANGED <<serverVars, idb, localStore, secureDb, vault, sessionKey, heap,
                       ssInitialized, cmInitialized, unloadHandler, reg, store, user,
                       cookie, rng, epoch, fpReturned>>

\* openDB has resolved: encryptData, and store.put is requested, or set rejects
Set_Encrypt(c) ==
    LET e == encryptData(Ctx, inits[c].value)
    IN  /\ inits[c].pc = "set_open"
        /\ TaskBoundary
        /\ WithinBounds(e.b)
        /\ inits' = [inits EXCEPT
                       ![c] = IF e.threw # "" THEN NotCalled
                              ELSE [inits[c] EXCEPT !.pc = "set_put"]
                                     @@ [encrypted |-> e.val]]
        /\ rng' = e.b.rng
        /\ lastOp' = [op |-> "set_encrypt", threw |-> e.threw, wrote |-> FALSE,
                      later |-> inits[c].later, torn |-> TornDown]
        /\ UNCHANGED <<serverVars, idb, localStore, secureDb, vault, sessionKey, heap,
                       ssInitialized, cmInitialized, unloadHandler, reg, store, user,
                       cookie, epoch, fpReturned>>

\* the put request succeeds: the value is in IndexedDB and set resolves
Set_Put(c) ==
    /\ inits[c].pc = "set_put"
    /\ TaskBoundary
    /\ inits' = [inits EXCEPT ![c] = NotCalled]
    /\ idb' = Put(idb, inits[c].key, inits[c].encrypted)
    /\ lastOp' = [op |-> "set_put", threw |-> "", wrote |-> TRUE,
                  later |-> inits[c].later, torn |-> TornDown,
                  key |-> inits[c].key, value |-> inits[c].value]
    /\ UNCHANGED <<serverVars, localStore, secureDb, vault, sessionKey, heap,
                   ssInitialized, cmInitialized, unloadHandler, reg, store, user,
                   cookie, rng, epoch, fpReturned>>

\* get() up to `await this.openDB()`
Get_Call(c) ==
    \E key \in StoredKeys :
        /\ inits[c].pc = "idle"
        /\ inits' = [inits EXCEPT ![c] = [pc |-> "get_open", teardown |-> FALSE,
                                          key |-> key, later |-> TornDown]]
        /\ lastOp' = [op |-> "get_call"]
        /\ UNCHANGED <<serverVars, idb, localStore, secureDb, vault, sessionKey, heap,
                       ssInitialized, cmInitialized, unloadHandler, reg, store, user,
                       cookie, rng, epoch, fpReturned>>

\* the get request succeeds: the stored string is decrypted and get settles
Get_Result(c) ==
    LET r == StorageGet(Ctx, inits[c].key)
    IN  /\ inits[c].pc = "get_open"
        /\ TaskBoundary
        /\ inits' = [inits EXCEPT ![c] = NotCalled]
        /\ lastOp' = [op |-> "get_done", val |-> r.val, threw |-> r.threw,
                      later |-> inits[c].later, torn |-> TornDown,
                      stored |-> Lookup(idb, inits[c].key)]
        /\ UNCHANGED <<serverVars, idb, localStore, secureDb, vault, sessionKey, heap,
                       ssInitialized, cmInitialized, unloadHandler, reg, store, user,
                       cookie, rng, epoch, fpReturned>>

NextInit ==
    \/ \E c \in Callers : Init_Call(c)
    \/ \E c \in Callers : Init_Key(c)
    \/ \E c \in Callers : Init_Opened(c)
    \/ \E c \in Callers : Set_Call(c)
    \/ \E c \in Callers : Set_Encrypt(c)
    \/ \E c \in Callers : Set_Put(c)
    \/ \E c \in Callers : Get_Call(c)
    \/ \E c \in Callers : Get_Result(c)
    \/ BeforeUnload
    \/ PageLoad

SpecInit == Init /\ [][NextInit]_vars

(***************************************************************************)
(* Properties                                                              *)
(***************************************************************************)
\* a login request for an existing account with its password / another one
CorrectLogin ==
    /\ lastOp.op = "login"
    /\ \E u \in users : /\ u.username = lastOp.username
                        /\ VerifyPassword(lastOp.password, u.password_hash)
WrongLogin ==
    /\ lastOp.op = "login"
    /\ \E u \in users : /\ u.username = lastOp.username
                        /\ ~VerifyPassword(lastOp.password, u.password_hash)

\* entries of the vault written before the current page was loaded
EarlierEntries == {e \in vault : e.epoch < epoch}

\* decryptVaultEntry returns the payload the entry was made from
Decrypts(e) ==
    /\ decryptVaultEntry(Ctx, e.data).threw = ""
    /\ decryptVaultEntry(Ctx, e.data).val = e.payload

\* a stored string that is a private key in the clear (base64 is an encoding)
IsPlainPrivateKey(v) == v.type = "b64" /\ v.bytes.type = "sk"

\* the string SecureStorage.set was given for a value of IndexedDB
StoredPlain(v) == to_string(SliceCiphertext(from_base64(v)).pt)

\* no key buffer of the page holds key bytes
HeapZeroized == \A a \in DOMAIN heap : heap[a] = Zero

\* C1: whenever encryptVaultEntry or decryptVaultEntry computes the entry key,
\* the bytes it hashes are the decrypted identity encryption private key, never
\* the wrapped blob nonce || ciphertext stored under master_enc_sk
C1_HashesDecryptedKey ==
    (lastOp.op \in {"encrypt", "decrypt"} /\ lastOp.hashed # Null)
        => (lastOp.hashed.type = "sk" /\ lastOp.hashed.kind = "enc")

\* C2: with an entry encrypted in an earlier page session, a login with the
\* account's correct password opens the vault and every such entry decrypts to
\* its original payload
C2_UnlockAfterReload ==
    (CorrectLogin /\ EarlierEntries # {})
        => (lastOp.view = "vault" /\ \A e \in EarlierEntries : Decrypts(e))

\* C3: a login with a wrong password for an existing account is answered as an
\* invalid password (401), stays on the login view, and leaves every entry
\* undecryptable
C3_WrongPasswordStaysLocked ==
    WrongLogin
        => /\ lastOp.resp.status = 401
           /\ lastOp.view = "login"
           /\ \A e \in vault : decryptVaultEntry(Ctx, e.data).threw # ""

\* C4: no private key is in durable storage (IndexedDB, localStorage) as
\* unwrapped plaintext, on any path including the storage-failure fallback
C4_NoPlaintextPrivateKeyStored ==
    /\ \A k \in DOMAIN localStore : ~IsPlainPrivateKey(localStore[k])
    /\ \A k \in DOMAIN idb : ~IsPlainPrivateKey(idb[k])
    /\ \A k \in DOMAIN secureDb : ~IsPlainPrivateKey(secureDb[k])

\* C5: when registration completes, the salt generateMasterKeys derived the
\* password key with is in the local durable store
C5_SaltPersisted ==
    (lastOp.op = "registered" /\ lastOp.resp.status = 201)
        => \/ \E k \in DOMAIN idb : StoredPlain(idb[k]) = lastOp.salt
           \/ \E k \in DOMAIN localStore : localStore[k] = lastOp.salt

C7_LogoutLocks ==
    lastOp.op = "logout" => (sessionKey = 0 /\ HeapZeroized)

\* C8: generateDeviceFingerprint returns the same value on every call on this
\* device, across page loads and logouts
C8_FingerprintStable == Cardinality(fpReturned) <= 1

\* C9: every users row has exactly one device with is_master = true
C9_OneMasterDevice ==
    \A u \in users :
        Cardinality({d \in devices : d.user_id = u.user_id /\ d.is_master}) = 1

\* C9 witness: two accounts exist and one of them has just logged in
C9_Witness ==
    /\ Cardinality(users) = 2
    /\ lastOp.op = "srv_login"
    /\ lastOp.resp.status = 200

\* C10: the response to a wrong password for an existing account equals, in
\* status and message, the response for an account that does not exist
C10_NoUsernameEnumeration ==
    \A req \in LoginRequests, other \in Usernames :
        LET known == \E u \in users : /\ u.username = req.username
                                       /\ ~VerifyPassword(req.password, u.password_hash)
            unknown == ~\E u \in users : u.username = other
            r1 == LoginHandler(req, "none").resp
            r2 == LoginHandler([req EXCEPT !.username = other], "none").resp
        IN  (known /\ unknown) => (r1.status = r2.status /\ r1.body = r2.body)

\* C11: SecureStorage.get(name) after SecureStorage.set(name, v) under the
\* unchanged session key returns v
C11_SetGetRoundTrip ==
    (lastOp.op = "store" /\ lastOp.error = "")
        => /\ StorageGet(Ctx, lastOp.name).val = lastOp.value
           /\ decryptData(Ctx, idb[lastOp.name]).threw = ""

\* C11 witness: the wrapped encryption key has just been stored
C11_Witness ==
    /\ lastOp.op = "store"
    /\ lastOp.error = ""
    /\ lastOp.name = "master_enc_sk"
    /\ StorageGet(Ctx, "master_enc_sk").val = lastOp.value

\* the value was sealed under the session key the page holds now
SealedNow(v) ==
    sessionKey # 0 /\ SliceCiphertext(from_base64(v)).key = heap[sessionKey]

\* C12: unwrapping fails closed: for an altered nonce or ciphertext, or another
\* key than the wrapping one, SecureStorage.get resolves null and
\* decryptVaultEntry throws; no plaintext is returned
C12_FailsClosed ==
    /\ \A k \in DOMAIN idb :
          /\ ~SealedNow(idb[k]) => StorageGet(Ctx, k).val = Null
          /\ \A t \in Tampered(idb[k]) :
                StorageGet([Ctx EXCEPT !.idb = Put(idb, k, t)], k).val = Null
    /\ \A e \in vault : \A t \in Tampered(e.data) :
          /\ decryptVaultEntry(Ctx, t).threw # ""
          /\ decryptVaultEntry(Ctx, t).val = Null

\* C12 witness: an entry and a stored key that open when they are not altered
C12_Witness ==
    /\ \E e \in vault : Decrypts(e)
    /\ StorageGet(Ctx, "master_enc_sk").val # Null

\* the secretbox inside a string of the form base64(nonce || ciphertext)
BoxIn(v) ==
    IF v.type = "b64" /\ v.bytes.type = "combined" /\ v.bytes.ct.type = "box"
    THEN {v.bytes.ct} ELSE {}

\* every secretbox the browser holds: stored values, the wrapped keys inside
\* them, the wrapped keys of a registration in flight, vault entries
Boxes ==
    UNION ({BoxIn(idb[k]) : k \in DOMAIN idb}
           \cup {BoxIn(StoredPlain(idb[k])) : k \in DOMAIN idb}
           \cup {BoxIn(e.data) : e \in vault}
           \cup (IF reg = Null THEN {}
                 ELSE {BoxIn(reg.masterKeys.encPrivateKey),
                       BoxIn(reg.masterKeys.signPrivateKey)}))

\* C13: no two encryptions under one key share a nonce: each encryption draws
\* its nonce inside the call, and the two private keys wrapped under one
\* master key use separately drawn nonces
C13_NoNonceReuse ==
    \A x \in Boxes, y \in Boxes :
        (x.key = y.key /\ x.nonce = y.nonce) => x = y

\* C13 witness: the two wrapped private keys of one registration are held,
\* along with a stored value and a vault entry
C13_Witness ==
    /\ \E x \in Boxes, y \in Boxes : x # y /\ x.key = y.key /\ x.key.type = "pwkey"
    /\ \E x \in Boxes, y \in Boxes : x # y /\ x.key = y.key /\ x.key.type = "key"
    /\ vault # {}

\* the device with fingerprint fp is registered for the account of username
RegisteredDevice(username, fp) ==
    \E u \in users, d \in devices :
        /\ u.username = username
        /\ d.user_id = u.user_id
        /\ d.device_fingerprint = fp

C15_ApprovedAfterApproval ==
    lastOp.op = "srv_approve"
        => /\ RegisteredDevice(lastOp.username, lastOp.device_fingerprint)
           /\ \E p \in Passwords :
                 LoginHandler([username |-> lastOp.username, password |-> p,
                               device_fingerprint |-> lastOp.device_fingerprint],
                              "none").resp.status = 200

\* C16: no request to the server carries a private key in the clear: the
\* registration payload has the public halves of the three key pairs, a login
\* carries the fingerprint, a vault entry is a sealed box
C16_NoPrivateKeySent ==
    /\ (reg # Null /\ reg.pc = 5)
          => /\ from_base64(RegisterPayload(reg).pk_encrypt) \in
                    {PublicKey("enc", n) : n \in 1..MaxRegs}
             /\ from_base64(RegisterPayload(reg).pk_sign) \in
                    {PublicKey("sign", n) : n \in 1..MaxRegs}
             /\ from_base64(RegisterPayload(reg).pk_device) \in
                    {PublicKey("dev", n) : n \in 1..MaxRegs}
             /\ RegisterPayload(reg).device_fingerprint.type = "fp"
    /\ lastOp.op = "login" => lastOp.device_fingerprint.type = "fp"
    /\ \A u \in users : from_base64(u.pk_encrypt).type = "pk" /\ from_base64(u.pk_sign).type = "pk"
    /\ \A d \in devices : from_base64(d.pk_device).type = "pk"
    /\ \A e \in vault : ~IsPlainPrivateKey(e.data) /\ BoxIn(e.data) # {}

\* C16 witness: a registration is about to send its payload while the device
\* holds the private key it generated
C16_Witness ==
    /\ reg # Null
    /\ reg.pc = 5
    /\ IsPlainPrivateKey(reg.deviceKeys.privateKey)

\* C17: when a teardown is requested while SecureStorage.init is running, then
\* once init has finished no session key is live: the reference is null and
\* the buffer is zeroed
C17_TeardownDuringInit ==
    (lastOp.op = "init_done" /\ lastOp.teardown)
        => (sessionKey = 0 /\ HeapZeroized)

\* C18: when decryptVaultEntry fails in handleDecryptEntry (wrong key, corrupted
\* blob, no key material), the handler does not reject: the snackbar shows the
\* failure message, the entry's isDecrypting flag is cleared, the list and every
\* entry's encrypted_data are what they were, and clicking again runs the
\* decryption again; a corrupted blob always fails
C18_DecryptFailureRecoverable ==
    lastOp.op = "view_decrypt" =>
        LET i == lastOp.clicked
            retry == handleDecryptEntry(Ctx, lastOp.entries, lastOp.snackbar,
                                        lastOp.entries[i])
        IN  /\ lastOp.clicked = 2 => lastOp.threw # ""
            /\ lastOp.threw # "" =>
                  /\ lastOp.snackbar = [open |-> TRUE, message |-> DecryptFailedMessage]
                  /\ Len(lastOp.entries) = Len(lastOp.listed)
                  /\ \A j \in DOMAIN lastOp.listed :
                        /\ lastOp.entries[j].entry_id = lastOp.listed[j].entry_id
                        /\ lastOp.entries[j].encrypted_data = lastOp.listed[j].encrypted_data
                        /\ lastOp.entries[j].isDecrypting = FALSE
                        /\ lastOp.entries[j].decryptedData = Null
                  /\ retry.threw = lastOp.threw
                  /\ retry.entries = lastOp.entries
            /\ lastOp.threw = "" =>
                  /\ lastOp.snackbar = NoSnackbar
                  /\ lastOp.entries[i].isDecrypting = FALSE
C18_Witness ==
    /\ lastOp.op = "view_decrypt"
    /\ lastOp.clicked = 2
    /\ lastOp.threw \notin {"", KeyNotFound}
    /\ lastOp.snackbar.open

\* the entry key decryptVaultEntry would derive now is the key of the entry's box
SameEntryKey(e) ==
    /\ HashedBytes(CryptoInit(Ctx)) # Null
    /\ crypto_generichash(HashedBytes(CryptoInit(Ctx)))
          = SliceCiphertext(from_base64(e.data)).key

\* C19: decryptVaultEntry(encryptVaultEntry(d)) returns d for every payload d,
\* at once and later for as long as the stored identity key is the same and
\* can be read; the string encryptVaultEntry returns is base64 of nonce ||
\* ciphertext, the ciphertext being the box of the JSON text under that nonce
C19_EncryptDecryptRoundTrip ==
    /\ \A d \in Payloads :
          LET r == encryptVaultEntry(Ctx, d)
              combined == from_base64(r.val)
          IN  r.threw = "" =>
                /\ decryptVaultEntry(r.b, r.val).threw = ""
                /\ decryptVaultEntry(r.b, r.val).val = d
                /\ combined.type = "combined"
                /\ SliceNonce(combined).type = "nonce"
                /\ SliceCiphertext(combined).type = "box"
                /\ SliceCiphertext(combined).nonce = SliceNonce(combined)
                /\ SliceCiphertext(combined).pt = from_string(JSONstringify(d))
    /\ \A e \in vault : SameEntryKey(e) => Decrypts(e)
C19_Witness ==
    /\ lastOp.op = "decrypt"
    /\ lastOp.error = ""
    /\ lastOp.val = lastOp.entry.payload
    /\ lastOp.entry \in vault

\* C20: when a signed-in user whose account exists creates an entry with a
\* payload encryptVaultEntry produced, the server answers 201 and the user's
\* list then holds the entry with encrypted_data equal to that payload
C20_OpaqueRoundTrip ==
    (/\ lastOp.op = "srv_create_entry"
     /\ lastOp.token.type = "jwt"
     /\ \E x \in users : x.user_id = lastOp.token.user_id)
        => /\ lastOp.resp.status = 201
           /\ LET listed == GetVaultEntriesHandler(vaultEntries, lastOp.token)
              IN  /\ listed.status = 200
                  /\ \E i \in DOMAIN listed.body :
                        /\ listed.body[i].entry_id = lastOp.resp.body.entry_id
                        /\ listed.body[i].encrypted_data = lastOp.req.encrypted_data

\* CryptoManager.isMasterDevice() resolves true
LocalMasterFlag == StorageGet(Ctx, "is_master_device").val = Str("true")

\* C21: whenever no registration is under way and the local is_master_device
\* flag reads true, the server has a devices row with is_master = true whose
\* fingerprint is one this device generated
C21_MasterFlagAgreesWithServer ==
    (Idle /\ LocalMasterFlag)
        => \E d \in devices : d.is_master /\ d.device_fingerprint \in fpReturned

\* C22: a registration in which the user insert, the device insert or the
\* commit fails leaves users and devices as they were, sets no cookie and
\* answers an error status; a registration answered 201 has added one users
\* row and one devices row of that user, and every other answer has added none
C22_RegisterAllOrNothing ==
    \A req \in RegisterRequests :
        /\ \A fault \in {"user", "device", "commit"} :
              LET out == RegisterHandler(req, fault)
              IN  /\ out.users = users
                  /\ out.devices = devices
                  /\ out.resp.cookie = NoToken
                  /\ out.resp.status >= 400
        /\ LET out == RegisterHandler(req, "none")
           IN  IF out.resp.status = 201
               THEN /\ Cardinality(out.users \ users) = 1
                    /\ Cardinality(out.devices \ devices) = 1
                    /\ \E u \in out.users \ users, d \in out.devices \ devices :
                          /\ u.username = req.username
                          /\ d.user_id = u.user_id
                          /\ d.device_fingerprint = req.device_fingerprint
                          /\ out.resp.cookie = GenerateToken(u.user_id, u.username, d.device_id)
               ELSE /\ out.users = users
                    /\ out.devices = devices
                    /\ out.resp.cookie = NoToken
C22_Witness ==
    /\ lastOp.op = "srv_register"
    /\ lastOp.resp.body \in {"failed to register device", "failed to complete registration"}
    /\ users # {}
    /\ \A u \in users : \E d \in devices : d.user_id = u.user_id

StoredNames == {"master_enc_sk", "master_sign_sk", "device_sk", "is_master_device"}

\* C23: when step 5 has sent the registration request, storeMasterKeys has
\* finished and has written all four names; a flow whose key store failed
\* sends no request
C23_RegisterAfterKeysStored ==
    lastOp.op = "registered"
        => (store = Null /\ StoredNames \subseteq DOMAIN idb)

\* the token the middleware looks at, and whether the server signed its claims
TokenSeen == ExtractTokenFromRequest(lastOp.request).token
SignedByServer ==
    /\ ExtractTokenFromRequest(lastOp.request).err = ""
    /\ TokenSeen.parts = 3
    /\ TokenSeen.signature = sign(TokenSeen.claims)

C25_ClearRemovesAllKeys ==
    lastOp.op = "helper_clear"
        => /\ StoredNames \cap DOMAIN secureDb = {}
           /\ StoredNames \cap DOMAIN localStore = {}

\* C26: for every login request, a cookie is set only when the username
\* exists, the password verifies against that user's hash and a devices row of
\* that same user has the fingerprint of the request, and the token is the one
\* of that user and device; every other answer sets no cookie and leaves the
\* devices table as it was
C26_LoginOnlyWithRegisteredDevice ==
    \A req \in LoginRequests, fault \in LoginFaults :
        LET out == LoginHandler(req, fault)
        IN  /\ out.resp.cookie # NoToken <=> out.resp.status = 200
            /\ out.resp.cookie # NoToken =>
                  \E u \in users, d \in devices :
                      /\ u.username = req.username
                      /\ VerifyPassword(req.password, u.password_hash)
                      /\ d.user_id = u.user_id
                      /\ d.device_fingerprint = req.device_fingerprint
                      /\ out.resp.cookie = GenerateToken(u.user_id, u.username, d.device_id)
            /\ out.resp.status # 200 =>
                  /\ out.devices = devices
                  /\ out.users = users
C26_Witness ==
    /\ Cardinality(users) = 2
    /\ lastOp.op = "srv_login"
    /\ lastOp.resp.status = 403
    /\ \E req \in LoginRequests :
          /\ LoginHandler(req, "none").resp.status = 403
          /\ \E d \in devices : d.device_fingerprint = req.device_fingerprint

\* the last request named an entry id whose row belongs to another user
OtherUsersEntry ==
    /\ lastOp.op \in {"srv_update_entry", "srv_delete_entry"}
    /\ lastOp.token.type = "jwt"
    /\ \E i \in DOMAIN lastOp.before :
          /\ lastOp.before[i].entry_id = lastOp.entry_id
          /\ lastOp.before[i].user_id # lastOp.token.user_id

\* every entry of the last listing is a row of the caller
ListsOwnRowsOnly ==
    (lastOp.op = "srv_list_entries" /\ lastOp.token.type = "jwt")
        => \A i \in DOMAIN lastOp.resp.body :
              \E j \in DOMAIN vaultEntries :
                 /\ vaultEntries[j].entry_id = lastOp.resp.body[i].entry_id
                 /\ vaultEntries[j].user_id = lastOp.token.user_id

C27_UpdateAnswers400 ==
    ~(OtherUsersEntry /\ lastOp.op = "srv_update_entry" /\ lastOp.resp.status = 400)

\* two requests counted under one address hold different limiters, and the
\* map was not emptied between the two hand-outs
TwoLimitersForOneIP(g, h) ==
    /\ requests[g].pc \in {"allow", "done"}
    /\ requests[h].pc \in {"allow", "done"}
    /\ requests[g].ip = requests[h].ip
    /\ requests[g].cleanups = requests[h].cleanups
    /\ requests[g].limiter # requests[h].limiter

\* C28: GetLimiter never hands two different limiters to two requests from
\* the same IP while that IP's entry has not been removed by cleanup
C28_OneLimiterPerIP ==
    \A g, h \in Goroutines : ~TwoLimitersForOneIP(g, h)

\* C29: once the beforeunload listener has zeroized and dropped the session
\* key, nothing in the page encrypts or decrypts with it again: a set that is
\* called later rejects and writes nothing, a set in flight at its openDB
\* rejects, a get called later or in flight resolves null, and init returns
\* without making a new key
C29_NoUseAfterTeardown ==
    /\ (lastOp.op = "set_encrypt" /\ (lastOp.later \/ lastOp.torn))
          => (lastOp.threw = NotInitialized /\ ~lastOp.wrote)
    /\ lastOp.op = "set_put" => ~lastOp.later
    /\ (lastOp.op = "get_done" /\ (lastOp.later \/ lastOp.torn))
          => (lastOp.val = Null /\ lastOp.threw = "")
    /\ (lastOp.op = "init_call" /\ lastOp.later) => (lastOp.returned /\ sessionKey = 0)
    /\ lastOp.op = "init_key" => ~(lastOp.later /\ lastOp.created)
    /\ TornDown => StorageSet(Ctx, "device_sk", Str("v1")).threw = NotInitialized
C29_Witness ==
    /\ lastOp.op = "get_done"
    /\ lastOp.later
    /\ lastOp.stored # Null
    /\ lastOp.val = Null

\* the stored string was sealed with a session key generated in this page
SealedInThisPage(stored) ==
    /\ from_base64(stored).type = "combined"
    /\ \E a \in DOMAIN heap : SliceCiphertext(from_base64(stored)).key = SessionKeyBytes(a)

\* C30: however many init calls run, one after another or at once, a page
\* generates at most one session key; every value set in the page is sealed
\* with it and, while the key has not been torn down, get returns the value
C30_OneSessionKey ==
    /\ Cardinality(DOMAIN heap) <= 1
    /\ sessionKey # 0 => sessionKey \in DOMAIN heap
    /\ lastOp.op = "set_put" => SealedInThisPage(idb[lastOp.key])
    /\ \A k \in DOMAIN idb :
          (sessionKey # 0 /\ SealedInThisPage(idb[k]))
              => /\ SliceCiphertext(from_base64(idb[k])).key = heap[sessionKey]
                 /\ StorageGet(Ctx, k).val
                       = to_string(SliceCiphertext(from_base64(idb[k])).pt)
C30_Witness ==
    /\ lastOp.op = "get_done"
    /\ lastOp.val \in StoredValues
    /\ \E c \in Callers : inits[c].pc = "opening"
    /\ ssInitialized

====
